---------------------------- MODULE Spec2Model ----------------------------
(***************************************************************************)
(* Model of the analysis pipeline of repo-context-packager:                *)
(* Packager.analyzeRepository / Packager.generatePackage (src/packager.ts) *)
(* with the path, file-system and utility helpers they call.               *)
(*                                                                         *)
(* Strings that the code inspects character by character (paths) are       *)
(* sequences of one-character strings, e.g. "a/x.t" is                     *)
(* <<"a","/","x",".","t">>.  A file content is the sequence of the lengths *)
(* of its lines: <<3,2>> is a 6-character text "ccc\ncc".                  *)
(***************************************************************************)
EXTENDS Integers, Sequences, FiniteSets, TLC

(***************************************************************************)
(* Bounds of the model.                                                    *)
(***************************************************************************)
MaxInputs == 2
MaxBudget == 2
MaxSizeLimit == 2
MaxEnvEvents == 1
MaxTracked == 3
MaxLines == 2
MaxClock == 2
MaxDays == 1
MaxTextLines == 3
MaxChars == 3
MaxStatements == 2

(***************************************************************************)
(* node:path (posix) on character sequences.                               *)
(***************************************************************************)
SEP == "/"
DOT == "."

\* index of the first c in s at or after position i, 0 when there is none
RECURSIVE IndexFrom(_, _, _)
IndexFrom(s, c, i) ==
    IF i > Len(s) THEN 0
    ELSE IF s[i] = c THEN i
    ELSE IndexFrom(s, c, i + 1)

RECURSIVE SplitOn(_, _)
SplitOn(s, c) ==
    LET i == IndexFrom(s, c, 1)
    IN IF i = 0 THEN <<s>>
       ELSE <<SubSeq(s, 1, i - 1)>> \o SplitOn(SubSeq(s, i + 1, Len(s)), c)

RECURSIVE JoinWith(_, _)
JoinWith(segs, c) ==
    IF Len(segs) = 0 THEN <<>>
    ELSE IF Len(segs) = 1 THEN segs[1]
    ELSE segs[1] \o <<c>> \o JoinWith(Tail(segs), c)

DotDot == <<DOT, DOT>>

\* normalizeString: drops empty and "." segments, resolves ".." against the
\* segment before it; above the start ".." is kept only when allowAbove.
RECURSIVE NormalizeSegs(_, _, _)
NormalizeSegs(segs, acc, allowAbove) ==
    IF Len(segs) = 0 THEN acc
    ELSE LET s == Head(segs)
             rest == Tail(segs)
         IN IF s = <<>> \/ s = <<DOT>>
            THEN NormalizeSegs(rest, acc, allowAbove)
            ELSE IF s = DotDot
            THEN IF Len(acc) > 0 /\ acc[Len(acc)] # DotDot
                 THEN NormalizeSegs(rest, SubSeq(acc, 1, Len(acc) - 1), allowAbove)
                 ELSE IF allowAbove
                      THEN NormalizeSegs(rest, Append(acc, s), allowAbove)
                      ELSE NormalizeSegs(rest, acc, allowAbove)
            ELSE NormalizeSegs(rest, Append(acc, s), allowAbove)

isAbsolute(p) == Len(p) > 0 /\ p[1] = SEP

normalize(p) ==
    IF Len(p) = 0 THEN <<DOT>>
    ELSE LET abs == isAbsolute(p)
             trailing == p[Len(p)] = SEP
             body == JoinWith(NormalizeSegs(SplitOn(p, SEP), <<>>, ~abs), SEP)
         IN IF Len(body) = 0
            THEN IF abs THEN <<SEP>> ELSE IF trailing THEN <<DOT, SEP>> ELSE <<DOT>>
            ELSE (IF abs THEN <<SEP>> ELSE <<>>) \o body
                 \o (IF trailing THEN <<SEP>> ELSE <<>>)

join(a, b) ==
    IF Len(a) = 0 /\ Len(b) = 0 THEN <<DOT>>
    ELSE IF Len(a) = 0 THEN normalize(b)
    ELSE IF Len(b) = 0 THEN normalize(a)
    ELSE normalize(a \o <<SEP>> \o b)

\* process.cwd() of the run
cwd == <<"/", "w">>

resolve(p) ==
    LET full == IF isAbsolute(p) THEN p ELSE cwd \o <<SEP>> \o p
        body == JoinWith(NormalizeSegs(SplitOn(full, SEP), <<>>, FALSE), SEP)
    IN <<SEP>> \o body

RECURSIVE CommonPrefixLen(_, _)
CommonPrefixLen(s, t) ==
    IF Len(s) = 0 \/ Len(t) = 0 \/ Head(s) # Head(t) THEN 0
    ELSE 1 + CommonPrefixLen(Tail(s), Tail(t))

relative(from, to) ==
    IF from = to THEN <<>>
    ELSE LET f == NormalizeSegs(SplitOn(resolve(from), SEP), <<>>, FALSE)
             t == NormalizeSegs(SplitOn(resolve(to), SEP), <<>>, FALSE)
             k == CommonPrefixLen(f, t)
             ups == [i \in 1..(Len(f) - k) |-> DotDot]
         IN JoinWith(ups \o SubSeq(t, k + 1, Len(t)), SEP)

\* index of the last character of p that is not a trailing separator
RECURSIVE TrimEnd(_)
TrimEnd(p) ==
    IF Len(p) > 1 /\ p[Len(p)] = SEP THEN TrimEnd(SubSeq(p, 1, Len(p) - 1)) ELSE p

RECURSIVE LastIndexBefore(_, _, _)
LastIndexBefore(s, c, i) ==
    IF i = 0 THEN 0
    ELSE IF s[i] = c THEN i
    ELSE LastIndexBefore(s, c, i - 1)

LastIndexOf(s, c) == LastIndexBefore(s, c, Len(s))

dirname(p) ==
    IF Len(p) = 0 THEN <<DOT>>
    ELSE LET q == TrimEnd(p)
             i == LastIndexOf(q, SEP)
         IN IF q = <<SEP>> THEN <<SEP>>
            ELSE IF i = 0 THEN <<DOT>>
            ELSE IF i = 1 THEN <<SEP>>
            ELSE SubSeq(q, 1, i - 1)

basename(p) ==
    LET q == TrimEnd(p)
        i == LastIndexOf(q, SEP)
    IN IF q = <<SEP>> THEN <<>> ELSE SubSeq(q, i + 1, Len(q))

extname(p) ==
    LET b == basename(p)
        i == LastIndexOf(b, DOT)
    IN IF i <= 1 \/ b = DotDot THEN <<>> ELSE SubSeq(b, i, Len(b))

startsWith(s, prefix) ==
    Len(prefix) <= Len(s) /\ SubSeq(s, 1, Len(prefix)) = prefix

LowerTable ==
    ("A" :> "a") @@ ("B" :> "b") @@ ("C" :> "c") @@ ("D" :> "d") @@ ("E" :>
    "e") @@ ("F" :> "f") @@ ("G" :> "g") @@ ("H" :> "h") @@ ("I" :> "i") @@
    ("J" :> "j") @@ ("K" :> "k") @@ ("L" :> "l") @@ ("M" :> "m") @@ ("N" :>
    "n") @@ ("O" :> "o") @@ ("P" :> "p") @@ ("Q" :> "q") @@ ("R" :> "r") @@
    ("S" :> "s") @@ ("T" :> "t") @@ ("U" :> "u") @@ ("V" :> "v") @@ ("W" :>
    "w") @@ ("X" :> "x") @@ ("Y" :> "y") @@ ("Z" :> "z")

LowerChar(c) == IF c \in DOMAIN LowerTable THEN LowerTable[c] ELSE c

toLowerCase(s) == [i \in 1..Len(s) |-> LowerChar(s[i])]


(***************************************************************************)
(* Numbers and texts.                                                      *)
(***************************************************************************)
\* Math.round(n / d) for n >= 0, d > 0 (halves round up)
MathRound(n, d) == (2 * n + d) \div (2 * d)

RECURSIVE SumSeq(_)
SumSeq(s) == IF Len(s) = 0 THEN 0 ELSE Head(s) + SumSeq(Tail(s))

\* content.length: the characters of every line plus the separating newlines
ContentLength(c) == SumSeq(c) + Len(c) - 1

\* content.split('\n').length
LineCount(c) == Len(c)

None == <<>>
Some(x) == <<x>>

(***************************************************************************)
(* The file system the run works on: a working directory /w with the       *)
(* directories a (a git work tree) and b, three regular files and a node   *)
(* that is neither a file nor a directory.                                 *)
(***************************************************************************)
N_a == <<"/", "w", "/", "a">>
N_b == <<"/", "w", "/", "b">>
N_s == <<"/", "w", "/", "s">>
N_ax == <<"/", "w", "/", "a", "/", "x", ".", "t">>
N_an == <<"/", "w", "/", "a", "/", "n">>
N_by == <<"/", "w", "/", "b", "/", "y", ".", "T">>

\* a third directory g with files that the discovery rules tell apart: an
\* ordinary file, a log file, a file whose name begins with a dot, an ignore
\* file, and files in the subdirectories d and dist
GITIGNORE == <<".", "g", "i", "t", "i", "g", "n", "o", "r", "e">>
E_x == <<"x", ".", "t">>
E_k == <<"k", ".", "l", "o", "g">>
E_e == <<".", "e">>
E_dz == <<"d", "/", "z", ".", "t">>
E_dk == <<"d", "/", "k", ".", "l", "o", "g">>
E_do == <<"d", "i", "s", "t", "/", "o", ".", "t">>
N_g == <<"/", "w", "/", "g">>
N_gd == N_g \o <<"/", "d">>
N_gdist == N_g \o <<"/", "d", "i", "s", "t">>
N_gx == N_g \o <<"/">> \o E_x
N_gk == N_g \o <<"/">> \o E_k
N_ge == N_g \o <<"/">> \o E_e
N_gi == N_g \o <<"/">> \o GITIGNORE
N_gdz == N_g \o <<"/">> \o E_dz
N_gdk == N_g \o <<"/">> \o E_dk
N_gdo == N_g \o <<"/">> \o E_do

DirNodes == {cwd, N_a, N_b, N_g, N_gd, N_gdist}
FileNodes == {N_ax, N_an, N_by, N_gx, N_gk, N_ge, N_gdz, N_gdk, N_gdo}
OtherNodes == {N_s}

\* files below a directory, relative to it, in the order the glob walk
\* reports them
Listing(d) ==
    IF d = N_a THEN << <<"x", ".", "t">>, <<"n">> >>
    ELSE IF d = N_b THEN << <<"y", ".", "T">> >>
    ELSE IF d = N_g THEN <<E_x, E_k, E_e, GITIGNORE, E_dz, E_dk, E_do>>
    ELSE IF d = cwd THEN << <<"a", "/", "x", ".", "t">>, <<"a", "/", "n">>,
                            <<"b", "/", "y", ".", "T">> >>
    ELSE <<>>

GitRoot == N_a
GitSnapshot == [commit |-> "c1", branch |-> "main", author |-> "dev", date |-> "d1"]

\* texts the files may hold: one line of 2 characters or two lines of 3 and
\* 2 characters
Short == <<2>>
Long == <<3, 2>>
FileTexts(x, n, y) == [f \in FileNodes |-> IF f = N_ax THEN x ELSE IF f = N_an THEN n ELSE y]
ContentChoices == {FileTexts(Short, Long, Short)}

\* nodes without read permission
UnreadableChoices == {{}, {N_b, N_by, N_an}}

\* the paths a caller may pass
InputPool == { <<"a">>, N_b, <<"b", "/", "y", ".", "T">>, <<"m">>, <<"s">> }

\* the paths a caller may pass when the discovery rules are exercised
DiscoverPool == { <<"g">>, <<"g", "/">> \o E_k, <<"m">>, <<"s">> }

\* the paths a caller may pass when the document is assembled: also the
\* directories b and a as relative paths, the latter with a leading "./"
DocumentPool == InputPool \cup { <<"b">>, <<".", "/", "a">> }

AllInputs == InputPool \cup DiscoverPool \cup DocumentPool

\* every path the calls below hand to the file system: the inputs, the primary
\* paths chosen among them, the candidates collected from them, the full
\* paths built for the candidates and the ignore files looked for
Primaries == AllInputs \cup {dirname(p) : p \in AllInputs} \cup {<<DOT>>}
Entries == UNION {{Listing(d)[i] : i \in 1..Len(Listing(d))} : d \in DirNodes}
Candidates ==
    AllInputs \cup {relative(pp, p) : pp \in Primaries, p \in AllInputs}
              \cup {join(d, f) : d \in AllInputs, f \in Entries}
FsPaths ==
    Primaries \cup Candidates \cup {join(pp, c) : pp \in Primaries, c \in Candidates}
              \cup {join(d, GITIGNORE) : d \in AllInputs}

\* the node each of these paths names: the file system resolves a relative
\* path against the working directory
NodeTable == [p \in FsPaths |-> resolve(p)]
NodeOf(p) == NodeTable[p]

RECURSIVE SeqsUpTo(_, _)
SeqsUpTo(S, n) ==
    IF n = 0 THEN {<<>>}
    ELSE LET shorter == SeqsUpTo(S, n - 1)
         IN shorter \cup {Append(q, x) : q \in shorter, x \in S}

VARIABLES
    paths,          \* Packager.paths
    maxFileSize,    \* Packager.maxFileSize, 0 when the option is not given
    maxTokens,      \* Packager.maxTokens, 0 when the option is not given
    repoInfo,       \* Packager.repoInfo
    pc,             \* position of analyzeRepository: idle, collect, process, done
    loc,            \* local variables of the running analyzeRepository call
    log,            \* diagnostics written to stderr by the running call
    output,         \* document returned by generatePackage since the last analysis
    fsContent,      \* text of every regular file
    unreadable,     \* nodes without read permission
    removed,        \* files deleted since the model started
    envEvents,      \* deletions and transient I/O failures so far
    prevInfo        \* repoInfo as the previous completed call left it

\* the units that are exercised on their own
VARIABLES
    stats,          \* a RepositoryStatistics object (statistics.ts)
    tracked,        \* the files given to trackFile since it was made or reset
    wasReset        \* whether reset has been called on it after a trackFile

\* one call of readFileContents and the record made of its result
VARIABLES
    readPath,       \* the path the call is given
    onDisk,         \* the file at that path, None when there is none
    returned,       \* the outcome of the call, None before it
    fileRecord      \* the FileInfo and token estimate made of the result

Reader == <<readPath, onDisk, returned, fileRecord>>

\* one call of a function that reads nothing but its arguments
VARIABLES
    call,           \* the function called and its arguments, None when idle
    answer          \* what the call returned, None before it returns

Pure == <<call, answer>>

Standalone == <<stats, tracked, wasReset, Reader, Pure>>

\* what file discovery depends on
VARIABLES
    include,        \* Packager.include, <<>> when the option is not given
    exclude,        \* Packager.exclude, <<>> when the option is not given
    recent,         \* Packager.recent in days, 0 when the option is not given
    ignoreFile,     \* the lines of g/.gitignore, None when g has no such file
    fileTimes,      \* mtime and ctime of every regular file, in days
    unstatable      \* files whose stat fails while the recency filter runs

Discovery == <<include, exclude, recent, ignoreFile, fileTimes, unstatable>>

vars == <<paths, maxFileSize, maxTokens, repoInfo, pc, loc, log, output,
          fsContent, unreadable, removed, envEvents, prevInfo, Standalone,
          Discovery>>

(***************************************************************************)
(* fs                                                                      *)
(***************************************************************************)
KindOf(n) ==
    IF n \in removed THEN "none"
    ELSE IF n \in DirNodes THEN "dir"
    ELSE IF n \in FileNodes THEN "file"
    ELSE IF n \in OtherNodes THEN "other"
    ELSE IF n = N_gi /\ ignoreFile # None THEN "file"
    ELSE "none"

existsSync(p) == KindOf(NodeOf(p)) # "none"
isDirectory(p) == KindOf(NodeOf(p)) = "dir"
isFile(p) == KindOf(NodeOf(p)) = "file"
\* fs.accessSync(p, R_OK) returns without throwing
canRead(p) == NodeOf(p) \notin unreadable


\* stats.size: the files hold single-byte characters; a node that is not a
\* regular file has no text and is given size 0
statSize(p) ==
    IF NodeOf(p) \in FileNodes THEN ContentLength(fsContent[NodeOf(p)]) ELSE 0

\* errno of fs.promises.readFile on the node as it is now, "" when it succeeds
ReadErrno(p) ==
    IF KindOf(NodeOf(p)) = "none" THEN "ENOENT"
    ELSE IF KindOf(NodeOf(p)) = "dir" THEN "EISDIR"
    ELSE IF NodeOf(p) \in unreadable THEN "EACCES"
    ELSE IF KindOf(NodeOf(p)) = "other" THEN "EIO"
    ELSE ""

\* errno values a failing stat may report, and those of a read that fails
\* on a file that has just been stat-ed
StatErrnos == {"ENOENT", "EACCES"}
ReadErrnos == {"EISDIR"}

(***************************************************************************)
(* git.ts, utils.ts                                                        *)
(***************************************************************************)
getGitInfo(repoPath) ==
    LET resolvedPath == resolve(repoPath)
    IN IF ~existsSync(repoPath) THEN None
       ELSE IF resolvedPath = GitRoot \/ startsWith(resolvedPath, GitRoot \o <<SEP>>)
       THEN Some(GitSnapshot)
       ELSE None

(***************************************************************************)
(* glob: a pattern and a path are compared segment by segment.  "*" stands *)
(* for any run of characters inside one segment and a segment "**" for any *)
(* number of segments.  Unless dot is set, a segment that begins with "."  *)
(* is matched only by a pattern segment that begins with "." itself, and   *)
(* "**" does not pass over it.                                             *)
(***************************************************************************)
STAR == "*"
GLOBSTAR == <<STAR, STAR>>

RECURSIVE WildMatch(_, _)
WildMatch(pat, str) ==
    IF pat = <<>> THEN str = <<>>
    ELSE IF Head(pat) = STAR
    THEN WildMatch(Tail(pat), str) \/ (str # <<>> /\ WildMatch(pat, Tail(str)))
    ELSE str # <<>> /\ Head(str) = Head(pat) /\ WildMatch(Tail(pat), Tail(str))

DotSegment(seg) == seg # <<>> /\ Head(seg) = DOT

SegMatch(pat, seg, dot) ==
    /\ dot \/ ~DotSegment(seg) \/ DotSegment(pat)
    /\ WildMatch(pat, seg)

RECURSIVE SegsMatch(_, _, _)
SegsMatch(pats, segs, dot) ==
    IF pats = <<>> THEN segs = <<>>
    ELSE IF Head(pats) = GLOBSTAR
    THEN \/ SegsMatch(Tail(pats), segs, dot)
         \/ /\ segs # <<>>
            /\ dot \/ ~DotSegment(Head(segs))
            /\ SegsMatch(pats, Tail(segs), dot)
    ELSE /\ segs # <<>>
         /\ SegMatch(Head(pats), Head(segs), dot)
         /\ SegsMatch(Tail(pats), Tail(segs), dot)

minimatch(file, pattern, dot) == SegsMatch(SplitOn(pattern, SEP), SplitOn(file, SEP), dot)

\* part_011 lines 54-92
DEFAULT_IGNORE_PATTERNS ==
    << <<"n", "o", "d", "e", "_", "m", "o", "d", "u", "l", "e", "s", "/", "*", "*">>,
       <<".", "g", "i", "t", "/", "*", "*">>,
       <<"*", ".", "l", "o", "g">>,
       <<"d", "i", "s", "t", "/", "*", "*">>,
       <<"b", "u", "i", "l", "d", "/", "*", "*">>,
       <<"o", "u", "t", "p", "u", "t", ".", "m", "d">>,
       <<"*", ".", "l", "o", "c", "k">>,
       <<"p", "a", "c", "k", "a", "g", "e", "-", "l", "o", "c", "k", ".", "j", "s", "o", "n">>,
       <<"y", "a", "r", "n", ".", "l", "o", "c", "k">>,
       <<"p", "n", "p", "m", "-", "l", "o", "c", "k", ".", "y", "a", "m", "l">>,
       <<"b", "u", "n", ".", "l", "o", "c", "k", "b">>,
       <<"R", "E", "A", "D", "M", "E", ".", "m", "d">>,
       <<"r", "e", "a", "d", "m", "e", ".", "m", "d">>,
       <<"I", "n", "s", "t", "r", "u", "c", "t", "i", "o", "n", ".", "m", "d">>,
       <<"i", "n", "s", "t", "r", "u", "c", "t", "i", "o", "n", ".", "m", "d">>,
       <<"I", "N", "S", "T", "R", "U", "C", "T", "I", "O", "N", "S", ".", "m", "d">>,
       <<"L", "I", "C", "E", "N", "S", "E">>,
       <<"l", "i", "c", "e", "n", "s", "e">>,
       <<"L", "I", "C", "E", "N", "S", "E", ".", "t", "x", "t">>,
       <<"C", "H", "A", "N", "G", "E", "L", "O", "G", ".", "m", "d">>,
       <<"c", "h", "a", "n", "g", "e", "l", "o", "g", ".", "m", "d">>,
       <<".", "g", "i", "t", "i", "g", "n", "o", "r", "e">>,
       <<".", "g", "i", "t", "a", "t", "t", "r", "i", "b", "u", "t", "e", "s">>,
       <<".", "e", "n", "v", "*">>,
       <<"*", ".", "e", "n", "v">>,
       <<".", "D", "S", "_", "S", "t", "o", "r", "e">>,
       <<"T", "h", "u", "m", "b", "s", ".", "d", "b">>,
       <<"*", ".", "t", "m", "p">>,
       <<"*", ".", "t", "e", "m", "p">>,
       <<"*", ".", "c", "a", "c", "h", "e">>,
       <<"c", "o", "v", "e", "r", "a", "g", "e", "/", "*", "*">>,
       <<".", "n", "y", "c", "_", "o", "u", "t", "p", "u", "t", "/", "*", "*">>,
       <<".", "v", "s", "c", "o", "d", "e", "/", "*", "*">>,
       <<".", "i", "d", "e", "a", "/", "*", "*">>,
       <<"*", ".", "s", "w", "p">>,
       <<"*", ".", "s", "w", "o">>,
       <<"*", "~">> >>

Range(s) == {s[i] : i \in 1..Len(s)}

\* String.prototype.trim on a line that holds spaces as its only white space
RECURSIVE trimLeft(_)
trimLeft(s) == IF s # <<>> /\ Head(s) = " " THEN trimLeft(Tail(s)) ELSE s

RECURSIVE trimRight(_)
trimRight(s) ==
    IF s # <<>> /\ s[Len(s)] = " " THEN trimRight(SubSeq(s, 1, Len(s) - 1)) ELSE s

trim(s) == trimRight(trimLeft(s))

\* lines of the ignore files a tree may hold, and the patterns a caller may
\* give
IgnoreLines ==
    { <<"#">> \o E_x, <<>>, <<" ">> \o E_x, <<" ", "d", "/", "*", "*">>, E_k }
IncludePatterns == { <<"*", ".", "t">>, <<"*", "*", "/", "*", ".", "t">>, <<"*", ".", "l", "o", "g">>, <<".", "*">> }
ExcludePatterns == { <<"*", "*", "/", "z", ".", "t">>, <<"*", ".", "l", "o", "g">> }

\* the result of every comparison the runs below can ask for
Patterns ==
    Range(DEFAULT_IGNORE_PATTERNS) \cup {trim(l) : l \in IgnoreLines}
        \cup IncludePatterns \cup ExcludePatterns \cup {<<STAR, STAR, SEP, STAR>>}
MatchTable ==
    [f \in Entries |-> [dot \in BOOLEAN |-> {p \in Patterns : minimatch(f, p, dot)}]]

Matches(file, pattern, dot) == pattern \in MatchTable[file][dot]

\* the file is matched by one of the patterns
MatchesAny(file, patterns, dot) == Range(patterns) \cap MatchTable[file][dot] # {}

\* lines 95-100: the patterns of repoPath/.gitignore
ignorePatternsOf(repoPath) ==
    IF existsSync(join(repoPath, GITIGNORE))
    THEN LET kept == SelectSeq(ignoreFile[1],
                        LAMBDA line : trim(line) # <<>> /\ ~startsWith(line, <<"#">>))
         IN [i \in 1..Len(kept) |-> trim(kept[i])]
    ELSE <<>>

\* nodir: only regular files are reported
SelectGlob(repoPath, files) ==
    SelectSeq(files, LAMBDA f : KindOf(NodeOf(join(repoPath, f))) = "file")

\* lines 104-108: the files below cwd that one of the patterns matches and
\* none of the ignore patterns does; ignore patterns are compared with dot set
glob(patterns, cwdOption, ignore) ==
    SelectSeq(SelectGlob(cwdOption, Listing(NodeOf(cwdOption))),
              LAMBDA f : MatchesAny(f, patterns, FALSE) /\ ~MatchesAny(f, ignore, TRUE))

\* the evaluation time, in days
Now == MaxClock

\* a recency test that looks at the content-modify time alone
isFileRecentlyModified_mtimeOnly(p, days) ==
    /\ KindOf(NodeOf(p)) # "none"
    /\ NodeOf(p) \notin unstatable
    /\ fileTimes[NodeOf(p)].mtime >= Now - days

\* part_011 lines 190-204
isFileRecentlyModified(p, days) ==
    /\ KindOf(NodeOf(p)) # "none"
    /\ NodeOf(p) \notin unstatable
    /\ LET st == fileTimes[NodeOf(p)]
           lastModified == IF st.mtime >= st.ctime THEN st.mtime ELSE st.ctime
           cutoffDate == Now - days
       IN lastModified >= cutoffDate

\* part_011 lines 94-124; recentDays 0 stands for an absent window
collectFiles(repoPath, inc, exc, recentDays) ==
    LET patterns == IF Len(inc) > 0 THEN inc ELSE << <<STAR, STAR, SEP, STAR>> >>
        files == glob(patterns, repoPath,
                      DEFAULT_IGNORE_PATTERNS \o ignorePatternsOf(repoPath) \o exc)
    IN IF recentDays # 0
       THEN SelectSeq(files,
                LAMBDA file : isFileRecentlyModified(join(repoPath, file), recentDays))
       ELSE files

calculateTokens(content) == MathRound(ContentLength(content), 4)

\* the error object that readFileContents rejects with: a fresh Error whose
\* message embeds the cause; it carries no code property
readFileContentsError(errno) == [code |-> "", message |-> errno]

\* the error object of a failed fs.promises.stat
statError(errno) == [code |-> errno, message |-> errno]

(***************************************************************************)
(* Packager                                                                *)
(***************************************************************************)
Min(S) == CHOOSE x \in S : \A y \in S : x <= y

\* the primary path as the first input, whatever it is, when no input is a
\* directory
selectPrimaryPath_firstInput ==
    LET dirs == {i \in 1..Len(paths) : existsSync(paths[i]) /\ isDirectory(paths[i])}
    IN IF dirs # {} THEN paths[CHOOSE i \in dirs : \A j \in dirs : i <= j]
       ELSE IF Len(paths) > 0 THEN paths[1]
       ELSE <<DOT>>

selectPrimaryPath ==
    LET dirs == {i \in 1..Len(paths) : existsSync(paths[i]) /\ isDirectory(paths[i])}
    IN IF dirs # {} THEN paths[Min(dirs)]
       ELSE IF Len(paths) > 0 /\ existsSync(paths[1])
       THEN IF isFile(paths[1]) THEN dirname(paths[1]) ELSE paths[1]
       ELSE <<DOT>>

EmptyRepoInfo ==
    [gitInfo |-> None, files |-> <<>>, totalFiles |-> 0, totalLines |-> 0,
     totalTokens |-> 0, totalCharacters |-> 0, directoriesProcessed |-> 0,
     fileTypes |-> <<>>, largestFile |-> None, averageFileSize |-> 0]

FreshLocals(primaryPath) ==
    [primaryPath |-> primaryPath, allFilePaths |-> <<>>, inputIdx |-> 1,
     fileIdx |-> 1, fileInfos |-> <<>>, currentTokens |-> 0, fileTypes |-> <<>>,
     largestFile |-> None, totalCharacters |-> 0, processedDirectories |-> {}]

RECURSIVE calculateTotalLines(_)
calculateTotalLines(files) ==
    IF Len(files) = 0 THEN 0
    ELSE Head(files).lines + calculateTotalLines(Tail(files))

\* a total that truncates each quotient instead of rounding it
RECURSIVE calculateTotalTokens_floor(_)
calculateTotalTokens_floor(files) ==
    IF Len(files) = 0 THEN 0
    ELSE (ContentLength(Head(files).content) \div 4)
         + calculateTotalTokens_floor(Tail(files))

RECURSIVE calculateTotalTokens(_)
calculateTotalTokens(files) ==
    IF Len(files) = 0 THEN 0
    ELSE MathRound(ContentLength(Head(files).content), 4)
         + calculateTotalTokens(Tail(files))

\* an average that truncates the quotient instead of rounding it
averageFileSize_floor(totalLines, totalFiles) ==
    IF totalFiles > 0 THEN totalLines \div totalFiles ELSE 0

averageFileSize(totalLines, totalFiles) ==
    IF totalFiles > 0 THEN MathRound(totalLines, totalFiles) ELSE 0

\* lines 448-457: the result record written when the admission loop is over
Finalize(l, info) ==
    [gitInfo |-> info.gitInfo,
     files |-> l.fileInfos,
     totalFiles |-> Len(l.fileInfos),
     totalLines |-> calculateTotalLines(l.fileInfos),
     totalTokens |-> calculateTotalTokens(l.fileInfos),
     totalCharacters |-> l.totalCharacters,
     directoriesProcessed |-> Cardinality(l.processedDirectories),
     fileTypes |-> l.fileTypes,
     largestFile |-> l.largestFile,
     averageFileSize |->
        averageFileSize(calculateTotalLines(l.fileInfos), Len(l.fileInfos))]

\* control after a step of analyzeRepository that leaves the locals l:
\* next input, next candidate, or the end of the call
Proceed(l, info, lg, stopped) ==
    /\ loc' = l
    /\ log' = lg
    /\ IF l.inputIdx <= Len(paths)
       THEN pc' = "collect" /\ repoInfo' = info
       ELSE IF ~stopped /\ l.fileIdx <= Len(l.allFilePaths)
       THEN pc' = "process" /\ repoInfo' = info
       ELSE pc' = "done" /\ repoInfo' = Finalize(l, info)

Diag(kind, p, cause) == [kind |-> kind, path |-> p, cause |-> cause]

\* statistics.ts lines 10-14: a newly constructed RepositoryStatistics
FreshStatistics ==
    [totalCharacters |-> 0, fileTypes |-> <<>>, largestFile |-> None,
     processedDirectories |-> {}, currentTokens |-> 0]

\* the standalone units as they are while the Packager is exercised
StatsIdle ==
    /\ stats = FreshStatistics
    /\ tracked = <<>>
    /\ wasReset = FALSE

ReaderIdle ==
    /\ readPath = <<>>
    /\ onDisk = None
    /\ returned = None
    /\ fileRecord = None

PureIdle ==
    /\ call = None
    /\ answer = None

StandaloneIdle == StatsIdle /\ ReaderIdle /\ PureIdle

Env == <<fsContent, unreadable, removed>>
Config == <<paths, maxFileSize, maxTokens, Standalone, Discovery>>

\* every file last written and last changed at the start of time
OldTimes == [f \in FileNodes |-> [mtime |-> 0, ctime |-> 0]]

\* a Packager made without include, exclude and recent options, on a tree
\* without ignore file
DiscoveryIdle ==
    /\ include = <<>>
    /\ exclude = <<>>
    /\ recent = 0
    /\ ignoreFile = None
    /\ fileTimes = OldTimes
    /\ unstatable = {}

\* the state after construction: each limit is either not given (0) or set to
\* its bound
Init ==
    /\ paths \in SeqsUpTo(InputPool, MaxInputs)
    /\ maxFileSize \in {0, MaxSizeLimit}
    /\ maxTokens \in {0, MaxBudget}
    /\ repoInfo = EmptyRepoInfo
    /\ pc = "idle"
    /\ loc = FreshLocals(<<DOT>>)
    /\ log = <<>>
    /\ output = None
    /\ fsContent \in ContentChoices
    /\ unreadable \in UnreadableChoices
    /\ removed = {}
    /\ envEvents = 0
    /\ prevInfo = None
    /\ StandaloneIdle
    /\ DiscoveryIdle

\* a call that does not reset the accumulators of the call before it
AnalyzeStart_keepsTotals ==
    /\ pc \in {"idle", "done"}
    /\ prevInfo' = IF pc = "done" THEN Some(repoInfo) ELSE prevInfo
    /\ Proceed([loc EXCEPT !.primaryPath = selectPrimaryPath,
                           !.allFilePaths = <<>>, !.inputIdx = 1, !.fileIdx = 1],
               [repoInfo EXCEPT !.gitInfo = getGitInfo(selectPrimaryPath)],
               <<>>, FALSE)
    /\ output' = None
    /\ UNCHANGED <<Config, Env, envEvents>>

\* lines 291-312 and 362-367: a call of analyzeRepository begins
AnalyzeStart ==
    /\ pc \in {"idle", "done"}
    /\ prevInfo' = IF pc = "done" THEN Some(repoInfo) ELSE prevInfo
    /\ Proceed(FreshLocals(selectPrimaryPath),
               [repoInfo EXCEPT !.gitInfo = getGitInfo(selectPrimaryPath)],
               <<>>, FALSE)
    /\ output' = None
    /\ UNCHANGED <<Config, Env, envEvents>>


(***************************************************************************)
(* Collection loop, lines 315-360: one step per input path.                *)
(***************************************************************************)
singlePath == paths[loc.inputIdx]

NextInput(l) == [l EXCEPT !.inputIdx = @ + 1]

\* path.relative(primaryPath, singlePath) || singlePath
relativePath(primaryPath, p) ==
    IF relative(primaryPath, p) = <<>> THEN p ELSE relative(primaryPath, p)

\* dirFiles.map(f => path.join(singlePath, f))
JoinAll(dir, dirFiles) == [i \in 1..Len(dirFiles) |-> join(dir, dirFiles[i])]

\* a missing input that ends the collection instead of being skipped
InputMissing_aborts ==
    /\ pc = "collect"
    /\ ~existsSync(singlePath)
    /\ Proceed([loc EXCEPT !.inputIdx = Len(paths) + 1], repoInfo,
               Append(log, Diag("path_missing", singlePath, "")), FALSE)
    /\ UNCHANGED <<Config, Env, output, envEvents, prevInfo>>

InputMissing ==
    /\ pc = "collect"
    /\ ~existsSync(singlePath)
    /\ Proceed(NextInput(loc), repoInfo,
               Append(log, Diag("path_missing", singlePath, "")), FALSE)
    /\ UNCHANGED <<Config, Env, output, envEvents, prevInfo>>

\* a file input that is put through the ignore rules like a discovered file
InputFile_filtered ==
    /\ pc = "collect"
    /\ existsSync(singlePath)
    /\ isFile(singlePath)
    /\ IF canRead(singlePath)
          /\ ~MatchesAny(basename(singlePath),
                         DEFAULT_IGNORE_PATTERNS \o ignorePatternsOf(dirname(singlePath))
                             \o exclude, TRUE)
       THEN Proceed([NextInput(loc) EXCEPT !.allFilePaths =
                        Append(@, relativePath(loc.primaryPath, singlePath))],
                    repoInfo, log, FALSE)
       ELSE Proceed(NextInput(loc), repoInfo, log, FALSE)
    /\ UNCHANGED <<Config, Env, output, envEvents, prevInfo>>

InputFile ==
    /\ pc = "collect"
    /\ existsSync(singlePath)
    /\ isFile(singlePath)
    /\ IF canRead(singlePath)
       THEN Proceed([NextInput(loc) EXCEPT !.allFilePaths =
                        Append(@, relativePath(loc.primaryPath, singlePath))],
                    repoInfo, log, FALSE)
       ELSE Proceed(NextInput(loc), repoInfo,
                    Append(log, Diag("file_permission", singlePath, "EACCES")), FALSE)
    /\ UNCHANGED <<Config, Env, output, envEvents, prevInfo>>

InputDirectory ==
    /\ pc = "collect"
    /\ existsSync(singlePath)
    /\ isDirectory(singlePath)
    /\ IF canRead(singlePath)
       THEN Proceed([NextInput(loc) EXCEPT !.allFilePaths =
                        @ \o JoinAll(singlePath,
                                      collectFiles(singlePath, include, exclude, recent))],
                    repoInfo, log, FALSE)
       ELSE Proceed(NextInput(loc), repoInfo,
                    Append(log, Diag("directory_permission", singlePath, "EACCES")),
                    FALSE)
    /\ UNCHANGED <<Config, Env, output, envEvents, prevInfo>>

InputOther ==
    /\ pc = "collect"
    /\ existsSync(singlePath)
    /\ ~isFile(singlePath)
    /\ ~isDirectory(singlePath)
    /\ Proceed(NextInput(loc), repoInfo,
               Append(log, Diag("neither_file_nor_directory", singlePath, "")), FALSE)
    /\ UNCHANGED <<Config, Env, output, envEvents, prevInfo>>

\* fs.statSync throws on a path that existsSync has just seen (line 357)
InputAccessError ==
    /\ pc = "collect"
    /\ existsSync(singlePath)
    /\ envEvents < MaxEnvEvents
    /\ envEvents' = envEvents + 1
    /\ \E errno \in ReadErrnos :
          Proceed(NextInput(loc), repoInfo,
                  Append(log, Diag("cannot_access", singlePath, errno)), FALSE)
    /\ UNCHANGED <<Config, Env, output, prevInfo>>

CollectInput ==
    \/ InputMissing
    \/ InputFile
    \/ InputDirectory
    \/ InputOther
    \/ InputAccessError

(***************************************************************************)
(* Admission loop, lines 373-446: one step per candidate.                  *)
(***************************************************************************)
filePath == loc.allFilePaths[loc.fileIdx]

\* lines 380-381
fullPathOf(primaryPath, p) ==
    IF isAbsolute(p) THEN p
    ELSE IF startsWith(p, primaryPath) THEN p
    ELSE join(primaryPath, p)

fullPath == fullPathOf(loc.primaryPath, filePath)

NextFile(l) == [l EXCEPT !.fileIdx = @ + 1]

(***************************************************************************)
(* readFileContents, part_011 lines 126-173.  A text is the sequence of    *)
(* the lengths of its lines; the string the call returns is described by   *)
(* its parts: the text kept and the note built around it.                  *)
(***************************************************************************)
\* lines 161-169
binaryExtensions ==
    << <<".", "j", "p", "g">>,
       <<".", "j", "p", "e", "g">>,
       <<".", "p", "n", "g">>,
       <<".", "g", "i", "f">>,
       <<".", "b", "m", "p">>,
       <<".", "i", "c", "o">>,
       <<".", "s", "v", "g">>,
       <<".", "p", "d", "f">>,
       <<".", "d", "o", "c">>,
       <<".", "d", "o", "c", "x">>,
       <<".", "x", "l", "s">>,
       <<".", "x", "l", "s", "x">>,
       <<".", "p", "p", "t">>,
       <<".", "p", "p", "t", "x">>,
       <<".", "z", "i", "p">>,
       <<".", "t", "a", "r">>,
       <<".", "g", "z">>,
       <<".", "r", "a", "r">>,
       <<".", "7", "z">>,
       <<".", "e", "x", "e">>,
       <<".", "d", "l", "l">>,
       <<".", "s", "o">>,
       <<".", "d", "y", "l", "i", "b">>,
       <<".", "m", "p", "3">>,
       <<".", "m", "p", "4">>,
       <<".", "a", "v", "i">>,
       <<".", "m", "o", "v">>,
       <<".", "w", "a", "v">>,
       <<".", "t", "t", "f">>,
       <<".", "o", "t", "f">>,
       <<".", "w", "o", "f", "f">>,
       <<".", "w", "o", "f", "f", "2">>,
       <<".", "p", "y", "c">>,
       <<".", "c", "l", "a", "s", "s">>,
       <<".", "o">>,
       <<".", "o", "b", "j">> >>

\* a test that compares the extension as it is written
isBinaryFile_caseSensitive(p) == extname(p) \in Range(binaryExtensions)

\* lines 160-173
isBinaryFile(p) == toLowerCase(extname(p)) \in Range(binaryExtensions)

\* number of characters of the decimal numeral of n
RECURSIVE Digits(_)
Digits(n) == IF n < 10 THEN 1 ELSE 1 + Digits(n \div 10)

\* line 145
maxSize == 16 * 1024

\* content.substring(0, k)
RECURSIVE substring0(_, _)
substring0(c, k) ==
    IF k >= ContentLength(c) THEN c
    ELSE IF k <= Head(c) THEN <<k>>
    ELSE <<Head(c)>> \o substring0(Tail(c), k - Head(c) - 1)

\* text.lastIndexOf('\n'), counted from 0; -1 when the text is one line
lastNewlineOf(text) ==
    IF Len(text) = 1 THEN -1 ELSE ContentLength(text) - text[Len(text)] - 1

\* a cut that also takes a line break at index 0
finalContentOf_fromZero(truncated) ==
    IF lastNewlineOf(truncated) >= 0
    THEN SubSeq(truncated, 1, Len(truncated) - 1)
    ELSE truncated

\* lines 147-149
finalContentOf(truncated) ==
    IF lastNewlineOf(truncated) > 0
    THEN SubSeq(truncated, 1, Len(truncated) - 1)
    ELSE truncated

PACKAGE_JSON == <<"p", "a", "c", "k", "a", "g", "e", ".", "j", "s", "o", "n">>
TSCONFIG_JSON == <<"t", "s", "c", "o", "n", "f", "i", "g", ".", "j", "s", "o", "n">>

\* the parts of a returned string
Parts(kind, kept, name, size, shown, original) ==
    [kind |-> kind, kept |-> kept, name |-> name, size |-> size,
     shown |-> shown, original |-> original]

\* line 130: [Binary file: NAME (SIZE bytes)]
BinaryPlaceholder(name, size) == Parts("binary", <<>>, name, size, 0, 0)

\* line 150: the kept text, an empty line and
\* ... [File truncated: showing first SHOWN characters of ORIGINAL]
TruncatedText(finalContent, original) ==
    Parts("truncated", finalContent, <<>>, 0, ContentLength(finalContent), original)

PlainText(kind, content) == Parts(kind, content, <<>>, 0, 0, 0)

\* the string made of the parts, as the lengths of its lines
contentOf(parts) ==
    IF parts.kind = "binary"
    THEN <<14 + Len(parts.name) + 2 + Digits(parts.size) + 8>>
    ELSE IF parts.kind = "truncated"
    THEN parts.kept \o <<0, 35 + Digits(parts.shown) + 15 + Digits(parts.original) + 1>>
    ELSE parts.kept

Outcome(threw, calls, parts) == [threw |-> threw, calls |-> calls, parts |-> parts]

\* lines 207-257: the summary when JSON.parse accepts the text, the text
\* itself otherwise
extractSummary(file) ==
    IF file.parsed # None THEN PlainText("summary", file.parsed[1])
    ELSE PlainText("text", file.content)

\* lines 126-158 on a file [content, size, parsed], None for a missing file
readFileContentsFrom(p, file) ==
    IF isBinaryFile(p)
    THEN IF file = None
         THEN Outcome(TRUE, <<"statSync">>, PlainText("error", <<>>))
         ELSE Outcome(FALSE, <<"statSync">>,
                      BinaryPlaceholder(basename(p), file.size))
    ELSE IF file = None
    THEN Outcome(TRUE, <<"readFile">>, PlainText("error", <<>>))
    ELSE IF basename(p) \in {PACKAGE_JSON, TSCONFIG_JSON}
    THEN Outcome(FALSE, <<"readFile">>, extractSummary(file))
    ELSE IF ContentLength(file.content) > maxSize
    THEN Outcome(FALSE, <<"readFile">>,
                 TruncatedText(finalContentOf(substring0(file.content, maxSize)),
                               ContentLength(file.content)))
    ELSE Outcome(FALSE, <<"readFile">>, PlainText("text", file.content))

\* the file a path of the tree names; none of them is read as JSON
fileAt(p) == [content |-> fsContent[NodeOf(p)], size |-> statSize(p), parsed |-> None]

\* the text readFileContents resolves with for a readable regular file
readFileContents(p) == contentOf(readFileContentsFrom(p, fileAt(p)).parts)

\* lines 398-400 and 430-435: the FileInfo made of a returned text
fileInfoOf(p, content, size) ==
    [path |-> p, content |-> content, lines |-> LineCount(content), size |-> size]

\* lines 436-444: the message chosen for a caught error
fileErrorKind(error) ==
    IF error.code = "ENOENT" THEN "not_found"
    ELSE IF error.code = "EACCES" THEN "permission_denied"
    ELSE IF error.code = "EISDIR" THEN "is_directory"
    ELSE "could_not_read"

\* a size limit that also rejects a file of exactly the limit
tooLarge_inclusive(size) == maxFileSize # 0 /\ size >= maxFileSize

tooLarge(size) == maxFileSize # 0 /\ size > maxFileSize

\* a budget that is used up when the total reaches it
exceedsTokens_inclusive(currentTokens, fileTokens) ==
    maxTokens # 0 /\ currentTokens + fileTokens >= maxTokens

\* line 402
exceedsTokens(currentTokens, fileTokens) ==
    maxTokens # 0 /\ currentTokens + fileTokens > maxTokens

\* path.extname(filePath).toLowerCase() || '.txt'
\* a histogram key that keeps the case of the extension
fileTypeKey_caseSensitive(p) ==
    IF extname(p) = <<>> THEN <<".", "t", "x", "t">> ELSE extname(p)

fileTypeKey(p) ==
    IF toLowerCase(extname(p)) = <<>> THEN <<".", "t", "x", "t">>
    ELSE toLowerCase(extname(p))

countFileType(fileTypes, key) ==
    IF key \in DOMAIN fileTypes
    THEN [fileTypes EXCEPT ![key] = @ + 1]
    ELSE [k \in DOMAIN fileTypes \cup {key} |->
            IF k = key THEN 1 ELSE fileTypes[k]]

\* a comparison that lets a later file of equal line count replace the holder
trackLargest_lastWins(largestFile, p, lines) ==
    IF largestFile = None \/ lines >= largestFile[1].lines
    THEN Some([path |-> p, lines |-> lines])
    ELSE largestFile

trackLargest(largestFile, p, lines) ==
    IF largestFile = None \/ lines > largestFile[1].lines
    THEN Some([path |-> p, lines |-> lines])
    ELSE largestFile

\* a set that also takes the current-directory marker
trackDirectory_countsDot(dirs, p) == dirs \cup {dirname(p)}

trackDirectory(dirs, p) ==
    IF dirname(p) # <<DOT>> /\ dirname(p) # <<>> THEN dirs \cup {dirname(p)} ELSE dirs

\* a record that is pushed twice
pushFile_twice(fileInfos, info) == Append(Append(fileInfos, info), info)

pushFile(fileInfos, info) == Append(fileInfos, info)

\* a candidate that is skipped with the diagnostic d
\* a failing candidate that ends the loop instead of being skipped
SkipFile_aborts(d) == Proceed(NextFile(loc), repoInfo, Append(log, d), TRUE)

SkipFile(d) == Proceed(NextFile(loc), repoInfo, Append(log, d), FALSE)

FileVanished ==
    /\ pc = "process"
    /\ ~existsSync(fullPath)
    /\ SkipFile(Diag("no_longer_exists", filePath, "ENOENT"))
    /\ UNCHANGED <<Config, Env, output, envEvents, prevInfo>>

\* fs.promises.stat rejects although existsSync has just seen the path
StatFailure ==
    /\ pc = "process"
    /\ existsSync(fullPath)
    /\ envEvents < MaxEnvEvents
    /\ envEvents' = envEvents + 1
    /\ \E errno \in StatErrnos :
          SkipFile(Diag(fileErrorKind(statError(errno)), filePath, errno))
    /\ UNCHANGED <<Config, Env, output, prevInfo>>

FileTooLarge ==
    /\ pc = "process"
    /\ existsSync(fullPath)
    /\ tooLarge(statSize(fullPath))
    /\ Proceed(NextFile(loc), repoInfo, log, FALSE)
    /\ UNCHANGED <<Config, Env, output, envEvents, prevInfo>>

\* readFileContents rejects: the node cannot be read as it is
ReadFailure ==
    /\ pc = "process"
    /\ existsSync(fullPath)
    /\ ~tooLarge(statSize(fullPath))
    /\ ReadErrno(fullPath) # ""
    /\ SkipFile(Diag(fileErrorKind(readFileContentsError(ReadErrno(fullPath))),
                     filePath, ReadErrno(fullPath)))
    /\ UNCHANGED <<Config, Env, output, envEvents, prevInfo>>

\* readFileContents rejects on a transient failure of the read
ReadFault ==
    /\ pc = "process"
    /\ existsSync(fullPath)
    /\ ~tooLarge(statSize(fullPath))
    /\ envEvents < MaxEnvEvents
    /\ envEvents' = envEvents + 1
    /\ \E errno \in ReadErrnos :
          SkipFile(Diag(fileErrorKind(readFileContentsError(errno)), filePath, errno))
    /\ UNCHANGED <<Config, Env, output, prevInfo>>

Readable ==
    /\ pc = "process"
    /\ existsSync(fullPath)
    /\ ~tooLarge(statSize(fullPath))
    /\ ReadErrno(fullPath) = ""

\* a budget check that skips the candidate (continue) instead of stopping
BudgetStop_skips ==
    /\ Readable
    /\ exceedsTokens(loc.currentTokens, MathRound(ContentLength(readFileContents(fullPath)), 4))
    /\ Proceed(NextFile(loc), repoInfo, log, FALSE)
    /\ UNCHANGED <<Config, Env, output, envEvents, prevInfo>>

\* line 402-407: break
BudgetStop ==
    /\ Readable
    /\ exceedsTokens(loc.currentTokens, MathRound(ContentLength(readFileContents(fullPath)), 4))
    /\ Proceed(loc, repoInfo, log, TRUE)
    /\ UNCHANGED <<Config, Env, output, envEvents, prevInfo>>

AdmitFile ==
    /\ Readable
    /\ LET content == readFileContents(fullPath)
           lines == LineCount(content)
           fileTokens == MathRound(ContentLength(content), 4)
       IN /\ ~exceedsTokens(loc.currentTokens, fileTokens)
          /\ Proceed([NextFile(loc) EXCEPT
                        !.currentTokens = @ + fileTokens,
                        !.totalCharacters = @ + ContentLength(content),
                        !.fileTypes = countFileType(@, fileTypeKey(filePath)),
                        !.largestFile = trackLargest(@, filePath, lines),
                        !.processedDirectories = trackDirectory(@, filePath),
                        !.fileInfos = pushFile(@, fileInfoOf(filePath, content,
                                                             statSize(fullPath)))],
                     repoInfo, log, FALSE)
    /\ UNCHANGED <<Config, Env, output, envEvents, prevInfo>>

ProcessFile ==
    \/ FileVanished
    \/ StatFailure
    \/ FileTooLarge
    \/ ReadFailure
    \/ ReadFault
    \/ BudgetStop
    \/ AdmitFile

(***************************************************************************)
(* generatePackage, lines 473-546                                          *)
(***************************************************************************)
displayPath == IF Len(paths) > 0 THEN paths[1] ELSE <<DOT>>

RECURSIVE PathsOf(_)
PathsOf(files) ==
    IF Len(files) = 0 THEN <<>> ELSE <<Head(files).path>> \o PathsOf(Tail(files))

\* a heading, the labels of the lines below it and what the lines show
Section(heading, labels, body) ==
    [heading |-> heading, labels |-> labels, body |-> body]

\* lines 480-488: the four lines of the snapshot, or the notice
gitSection(gitInfo) ==
    IF gitInfo # None
    THEN Section("Git Info", <<"Commit", "Branch", "Author", "Date">>, gitInfo)
    ELSE Section("Git Info", <<"Not a git repository">>, None)

\* lines 490-494: this.recent is falsy when the option is absent
recentSection_always(days) == <<Section("Recent Changes", <<"Showing">>, days)>>

recentSection(days) ==
    IF days # 0 THEN <<Section("Recent Changes", <<"Showing">>, days)>> ELSE <<>>

\* lines 474-545, the headings in the order they are appended to the output;
\* the tree and the per-file blocks stand as the paths they are drawn from
sectionsOf(info) ==
    <<Section("File System Location", <<>>, resolve(displayPath)),
      gitSection(info.gitInfo)>>
    \o recentSection(recent)
    \o <<Section("Structure", <<>>, PathsOf(info.files)),
         Section("File Contents", <<>>, PathsOf(info.files)),
         Section("Summary", <<"Total files", "Total lines">>,
                 <<info.totalFiles, info.totalLines>>)>>

generatePackage ==
    [location |-> resolve(displayPath),
     gitInfo |-> repoInfo.gitInfo,
     files |-> PathsOf(repoInfo.files),
     totalFiles |-> repoInfo.totalFiles,
     totalLines |-> repoInfo.totalLines,
     sections |-> sectionsOf(repoInfo)]

GeneratePackage ==
    /\ pc = "done"
    /\ output' = Some(generatePackage)
    /\ UNCHANGED <<Config, Env, repoInfo, pc, loc, log, envEvents, prevInfo>>

(***************************************************************************)
(* Environment: another process deletes the regular file that the running  *)
(* call is about to look at (the input of the next collection step, the    *)
(* candidate of the next admission step).  The deletion lasts, so a later  *)
(* call also lists the directories without the file.                       *)
(***************************************************************************)
FsRemove ==
    /\ pc \in {"collect", "process"}
    /\ envEvents < MaxEnvEvents
    /\ envEvents' = envEvents + 1
    /\ LET n == NodeOf(IF pc = "collect" THEN singlePath ELSE fullPath)
       IN n \in FileNodes \ removed /\ removed' = removed \cup {n}
    /\ UNCHANGED <<Config, fsContent, unreadable, repoInfo, pc, loc, log, output,
                   prevInfo>>

Next ==
    \/ AnalyzeStart
    \/ CollectInput
    \/ ProcessFile
    \/ GeneratePackage
    \/ FsRemove

Spec == Init /\ [][Next]_vars


(***************************************************************************)
(* The units below are exercised on their own.  PackagerIdle is the        *)
(* Packager that stands by meanwhile: constructed without inputs, never    *)
(* run.                                                                    *)
(***************************************************************************)
PackagerVars ==
    <<paths, maxFileSize, maxTokens, repoInfo, pc, loc, log, output,
      fsContent, unreadable, removed, envEvents, prevInfo>>

PackagerIdle ==
    /\ paths = <<>>
    /\ maxFileSize = 0
    /\ maxTokens = 0
    /\ repoInfo = EmptyRepoInfo
    /\ pc = "idle"
    /\ loc = FreshLocals(<<DOT>>)
    /\ log = <<>>
    /\ output = None
    /\ fsContent = FileTexts(Short, Long, Short)
    /\ unreadable = {}
    /\ removed = {}
    /\ envEvents = 0
    /\ prevInfo = None
    /\ DiscoveryIdle

(***************************************************************************)
(* RepositoryStatistics (statistics.ts): any sequence of trackFile and     *)
(* reset calls on one object.                                              *)
(***************************************************************************)
\* the FileInfo records a caller may track: lines is a field of its own, it
\* is not recomputed from content
TrackPaths ==
    { <<"x", ".", "t">>, <<"a", "/", "x", ".", "t">>, <<"a", "/", "n">>,
      <<"b", "/", "y", ".", "T">> }

TrackFiles ==
    {[path |-> p, content |-> c, lines |-> n, size |-> ContentLength(c)] :
        p \in TrackPaths, c \in {Short, Long}, n \in {1, MaxLines}}

\* lines 22-44
trackFile(s, fileInfo) ==
    [totalCharacters |-> s.totalCharacters + ContentLength(fileInfo.content),
     currentTokens |-> s.currentTokens + calculateTokens(fileInfo.content),
     fileTypes |-> countFileType(s.fileTypes, fileTypeKey(fileInfo.path)),
     largestFile |-> trackLargest(s.largestFile, fileInfo.path, fileInfo.lines),
     processedDirectories |-> trackDirectory(s.processedDirectories, fileInfo.path)]

\* lines 53-59; maxTokens 0 stands for an absent limit
wouldExceedTokenLimit(s, content, limit) ==
    IF limit = 0 THEN FALSE
    ELSE s.currentTokens + calculateTokens(content) > limit

getCurrentTokens(s) == s.currentTokens
getTotalCharacters(s) == s.totalCharacters
getFileTypes(s) == s.fileTypes
getLargestFile(s) == s.largestFile
getDirectoriesProcessedCount(s) == Cardinality(s.processedDirectories)

\* lines 112-118
calculateAverageFileSize(files) ==
    IF Len(files) = 0 THEN 0
    ELSE MathRound(calculateTotalLines(files), Len(files))

\* a reset that forgets the token counter
reset_keepsTokens(s) ==
    [s EXCEPT !.totalCharacters = 0, !.fileTypes = <<>>, !.largestFile = None,
              !.processedDirectories = {}]

\* lines 123-129
reset(s) ==
    [s EXCEPT !.totalCharacters = 0, !.fileTypes = <<>>, !.largestFile = None,
              !.processedDirectories = {}, !.currentTokens = 0]

StatsInit ==
    /\ PackagerIdle
    /\ ReaderIdle
    /\ PureIdle
    /\ stats = FreshStatistics
    /\ tracked = <<>>
    /\ wasReset = FALSE

TrackFile ==
    /\ Len(tracked) < MaxTracked
    /\ \E f \in TrackFiles :
          /\ stats' = trackFile(stats, f)
          /\ tracked' = Append(tracked, f)
    /\ UNCHANGED <<PackagerVars, Discovery, Reader, Pure, wasReset>>

Reset ==
    /\ stats' = reset(stats)
    /\ tracked' = <<>>
    /\ wasReset' = (wasReset \/ tracked # <<>>)
    /\ UNCHANGED <<PackagerVars, Discovery, Reader, Pure>>

StatsNext ==
    \/ TrackFile
    \/ Reset

SpecStats == StatsInit /\ [][StatsNext]_vars

(***************************************************************************)
(* File discovery: the collection loop of analyzeRepository (packager.ts   *)
(* lines 291-360) on the directory g, for a Packager constructed with      *)
(* include, exclude and recent options.                                    *)
(***************************************************************************)
G == <<"g">>
G_k == <<"g", "/">> \o E_k

DiscoverInputs == { <<G>>, <<G_k, G>>, <<G, G_k>>, << <<"m">>, <<"s">> >> }

IncludeChoices ==
    { <<>>, << <<"*", ".", "t">> >>, << <<"*", "*", "/", "*", ".", "t">>, <<"*", ".", "l", "o", "g">> >>, << <<".", "*">> >> }
ExcludeChoices == { <<>>, << <<"*", "*", "/", "z", ".", "t">>, <<"*", ".", "l", "o", "g">> >> }
IgnoreFileChoices ==
    { None, Some(<< <<"#">> \o E_x, <<>>, <<" ", "d", "/", "*", "*">> >>), Some(<< <<" ">> \o E_x, E_k >>) }

\* g/x.t was written and changed at any two times; the files of g/d are
\* new, every other file is old
TimesChoices ==
    {[f \in FileNodes |->
        IF f = N_gx THEN [mtime |-> m, ctime |-> c]
        ELSE IF f \in {N_gdz, N_gdk} THEN [mtime |-> Now, ctime |-> Now]
        ELSE [mtime |-> 0, ctime |-> 0]] : m \in 0..MaxClock, c \in 0..MaxClock}

DiscoverInit ==
    /\ paths \in DiscoverInputs
    /\ maxFileSize = 0
    /\ maxTokens = 0
    /\ repoInfo = EmptyRepoInfo
    /\ pc = "idle"
    /\ loc = FreshLocals(<<DOT>>)
    /\ log = <<>>
    /\ output = None
    /\ fsContent = FileTexts(Short, Long, Short)
    /\ unreadable = {}
    /\ removed = {}
    /\ envEvents = 0
    /\ prevInfo = None
    /\ StandaloneIdle
    /\ include \in IncludeChoices
    /\ exclude \in ExcludeChoices
    /\ recent \in 0..MaxDays
    /\ ignoreFile \in IgnoreFileChoices
    /\ fileTimes \in TimesChoices
    /\ unstatable \in {{}, {N_gdz}}

DiscoverNext ==
    \/ AnalyzeStart
    \/ CollectInput

SpecDiscover == DiscoverInit /\ [][DiscoverNext]_vars

(***************************************************************************)
(* The document of a Packager made with or without a recency window, on a  *)
(* tree whose files are all new.                                           *)
(***************************************************************************)
NewTimes == [f \in FileNodes |-> [mtime |-> Now, ctime |-> Now]]

\* no limit with or without a recency window; without window also a token
\* budget, or a size limit on a tree where a/x.t lacks read permission
DocumentOptions ==
    { [maxFileSize |-> 0, maxTokens |-> 0, unreadable |-> {}, recent |-> d] :
        d \in 0..MaxDays }
    \cup
    { [maxFileSize |-> 0, maxTokens |-> MaxBudget, unreadable |-> {}, recent |-> 0],
      [maxFileSize |-> MaxSizeLimit, maxTokens |-> 0, unreadable |-> {N_ax},
       recent |-> 0] }

\* the environment has one fault left to inject
DocumentInit ==
    /\ paths \in SeqsUpTo(DocumentPool, MaxInputs)
    /\ \E options \in DocumentOptions :
          /\ maxFileSize = options.maxFileSize
          /\ maxTokens = options.maxTokens
          /\ unreadable = options.unreadable
          /\ recent = options.recent
    /\ repoInfo = EmptyRepoInfo
    /\ pc = "idle"
    /\ loc = FreshLocals(<<DOT>>)
    /\ log = <<>>
    /\ output = None
    /\ fsContent = FileTexts(Short, Long, Short)
    /\ removed = {}
    /\ envEvents = MaxEnvEvents - 1
    /\ prevInfo = None
    /\ StandaloneIdle
    /\ include = <<>>
    /\ exclude = <<>>
    /\ ignoreFile = None
    /\ fileTimes = NewTimes
    /\ unstatable = {}

DocumentNext ==
    \/ AnalyzeStart
    \/ CollectInput
    \/ ProcessFile
    \/ GeneratePackage

SpecDocument == DocumentInit /\ [][DocumentNext]_vars

(***************************************************************************)
(* readFileContents on its own: one call on any of the files below, and    *)
(* the record the admission loop makes of what the call returns            *)
(* (packager.ts lines 398-400 and 430-435).                                *)
(***************************************************************************)
\* a compiled object whose extension is written in upper case, a plain text
\* and the two configuration files
ReadPaths == { <<"h", "/", "p", ".", "O">>, E_x, PACKAGE_JSON, TSCONFIG_JSON }

\* line lengths on either side of the ceiling
LineLengths == {0, 1, maxSize - 2, maxSize - 1, maxSize, maxSize + 1}

ReadTexts == SeqsUpTo(LineLengths, MaxTextLines) \ {<<>>}

\* the files that may be there: the characters are single bytes
ReadFiles ==
    {[content |-> c, size |-> ContentLength(c), parsed |-> s] :
        c \in ReadTexts, s \in {None, Some(<<1, 1>>)}}

ReadInit ==
    /\ PackagerIdle
    /\ StatsIdle
    /\ PureIdle
    /\ readPath \in ReadPaths
    /\ onDisk \in {None} \cup ReadFiles
    /\ returned = None
    /\ fileRecord = None

\* const content = await readFileContents(fullPath)
ReadFileContents ==
    /\ returned = None
    /\ returned' = Some(readFileContentsFrom(readPath, onDisk))
    /\ UNCHANGED <<PackagerVars, Discovery, Pure, stats, tracked, wasReset, readPath,
                   onDisk, fileRecord>>

\* packager.ts lines 398-400 and 430-435
RecordFile ==
    /\ returned # None
    /\ ~returned[1].threw
    /\ fileRecord = None
    /\ LET content == contentOf(returned[1].parts)
       IN fileRecord' = Some([info |-> fileInfoOf(readPath, content, onDisk.size),
                              fileTokens |-> MathRound(ContentLength(content), 4)])
    /\ UNCHANGED <<PackagerVars, Discovery, Pure, stats, tracked, wasReset, readPath,
                   onDisk, returned>>

ReadNext ==
    \/ ReadFileContents
    \/ RecordFile

SpecRead == ReadInit /\ [][ReadNext]_vars

(***************************************************************************)
(* The functions that depend on their arguments alone, each called once on *)
(* any of the arguments below.  A text is the sequence of its characters.  *)
(***************************************************************************)
\* String.prototype.substring(0, n): a negative n counts as 0
substring(s, n) ==
    IF n <= 0 THEN <<>> ELSE IF n >= Len(s) THEN s ELSE SubSeq(s, 1, n)

TRUNCATED == <<".", ".", ".", " ", "[", "t", "r", "u", "n", "c", "a", "t", "e", "d", "]">>

\* a cut that also shortens a text of exactly maxLength characters
truncateContent_inclusive(content, maxLength) ==
    IF Len(content) >= maxLength
    THEN substring(content, maxLength) \o TRUNCATED
    ELSE content

\* utils.ts lines 106-111
truncateContent(content, maxLength) ==
    IF Len(content) > maxLength
    THEN substring(content, maxLength) \o TRUNCATED
    ELSE content

(***************************************************************************)
(* summarizeCode and formatSummary (summarizer).  A source text is the     *)
(* sequence of its lexemes: keywords, names and punctuation marks, string  *)
(* literals, doc comments and runs of blank characters between a comment   *)
(* and what follows it.  White space between two lexemes is implied, and   *)
(* a lexeme counts as one character where the code measures a distance.    *)
(* Line numbers (FunctionInfo.line, FileSummary.totalLines) are left out.  *)
(***************************************************************************)
T(s) == [tok |-> s, arg |-> <<>>]
Str(s) == [tok |-> "str", arg |-> <<s>>]
JSDoc(lines) == [tok |-> "/**", arg |-> lines]
DocString(lines) == [tok |-> "'''", arg |-> lines]
Blank(n) == [tok |-> "blank", arg |-> <<n>>]

Words(s) == [i \in 1..Len(s) |-> T(s[i])]

\* what \w+ does not match
NonWord ==
    {"", "str", "/**", "'''", "blank", "(", ")", "{", "}", "=", "=>", ":", ",",
     "*", "->", ";"}

tokAt(items, i) == IF i \in 1..Len(items) THEN items[i].tok ELSE ""
isWord(items, i) == tokAt(items, i) \notin NonWord

\* [^x]*: the first position from i on that holds one of the stop marks, or
\* the end of the text
RECURSIVE RunEnd(_, _, _)
RunEnd(items, i, stop) ==
    IF i > Len(items) \/ items[i].tok \in stop THEN i
    ELSE RunEnd(items, i + 1, stop)

\* [\w,\s]+
RECURSIVE WordRunEnd(_, _)
WordRunEnd(items, i) ==
    IF isWord(items, i) \/ tokAt(items, i) = "," THEN WordRunEnd(items, i + 1)
    ELSE i

\* a match: where it starts, where the next search starts, its groups ("" for
\* a group that took no part)
Match(index, end, g) == [index |-> index, end |-> end, g |-> g]

\* {[^}]+}|\w+ at j: the position after it, 0 without match
bindingEnd(items, j) ==
    IF tokAt(items, j) = "{"
    THEN LET c == RunEnd(items, j + 1, {"}"})
         IN IF c > j + 1 /\ c <= Len(items) THEN c + 1 ELSE 0
    ELSE IF isWord(items, j) THEN j + 1
    ELSE 0

\* line 77
importRegex(items, i) ==
    LET j == i + 1
        c == IF tokAt(items, j) = "*" /\ tokAt(items, j + 1) = "as"
                /\ isWord(items, j + 2)
             THEN j + 3
             ELSE bindingEnd(items, j)
        f == IF c # 0 /\ tokAt(items, c) = "from" THEN c ELSE j
    IN IF tokAt(items, i) = "import" /\ tokAt(items, f) = "from"
          /\ tokAt(items, f + 1) = "str"
       THEN Some(Match(i, f + 2, <<items[f + 1].arg[1]>>))
       ELSE None

\* line 78
requireRegex(items, i) ==
    LET c == bindingEnd(items, i + 1)
    IN IF tokAt(items, i) \in {"const", "let", "var"} /\ c # 0
          /\ tokAt(items, c) = "=" /\ tokAt(items, c + 1) = "require"
          /\ tokAt(items, c + 2) = "(" /\ tokAt(items, c + 3) = "str"
          /\ tokAt(items, c + 4) = ")"
       THEN Some(Match(i, c + 5, <<items[c + 3].arg[1]>>))
       ELSE None

ExportKinds == {"function", "class", "interface", "type", "const", "let", "var"}

\* line 97
exportRegex(items, i) ==
    LET k == IF tokAt(items, i + 1) = "default" THEN i + 2 ELSE i + 1
    IN IF tokAt(items, i) = "export" /\ tokAt(items, k) \in ExportKinds
          /\ isWord(items, k + 1)
       THEN Some(Match(i, k + 2, <<items[k + 1].tok>>))
       ELSE None

\* (export\s+)? at i: the group and the position after it
exportAt(items, i) == IF tokAt(items, i) = "export" THEN "export" ELSE ""
afterExport(items, i) == IF tokAt(items, i) = "export" THEN i + 1 ELSE i

\* (?:\s*:\s*[^x]+)? at i: the position after it
annotationEnd(items, i, stop) ==
    LET e == RunEnd(items, i + 1, stop)
    IN IF tokAt(items, i) = ":" /\ e > i + 1 THEN e ELSE i

\* line 128
functionRegex(items, i) ==
    LET a == afterExport(items, i)
        f == IF tokAt(items, a) = "async" THEN a + 1 ELSE a
        close == RunEnd(items, f + 3, {")"})
    IN IF tokAt(items, f) = "function" /\ isWord(items, f + 1)
          /\ tokAt(items, f + 2) = "(" /\ close <= Len(items)
       THEN Some(Match(i, annotationEnd(items, close + 1, {"{"}),
                       <<exportAt(items, i),
                         IF f > a THEN "async" ELSE "",
                         items[f + 1].tok, "">>))
       ELSE None

\* line 131; the annotation is taken lazily, up to the first arrow
arrowRegex(items, i) ==
    LET k == afterExport(items, i)
        p == IF tokAt(items, k + 3) = "async" THEN k + 4 ELSE k + 3
        close == RunEnd(items, p + 1, {")"})
        arrow == IF tokAt(items, close + 1) = ":"
                 THEN RunEnd(items, close + 2, {"=", "=>"})
                 ELSE close + 1
    IN IF tokAt(items, k) \in {"const", "let", "var"} /\ isWord(items, k + 1)
          /\ tokAt(items, k + 2) = "=" /\ tokAt(items, p) = "("
          /\ close <= Len(items) /\ tokAt(items, arrow) = "=>"
          /\ (tokAt(items, close + 1) = ":" => arrow > close + 2)
       THEN Some(Match(i, arrow + 1,
                       <<exportAt(items, i), items[k].tok, items[k + 1].tok,
                         IF p > k + 3 THEN "async" ELSE "">>))
       ELSE None

\* line 134
classRegex(items, i) ==
    LET k == afterExport(items, i)
        x == IF tokAt(items, k + 2) = "extends" /\ isWord(items, k + 3)
             THEN k + 4 ELSE k + 2
        e == IF tokAt(items, x) = "implements" /\ WordRunEnd(items, x + 1) > x + 1
             THEN WordRunEnd(items, x + 1) ELSE x
    IN IF tokAt(items, k) = "class" /\ isWord(items, k + 1)
       THEN Some(Match(i, e, <<exportAt(items, i), items[k + 1].tok>>))
       ELSE None

\* line 137
interfaceRegex(items, i) ==
    LET k == afterExport(items, i)
        e == IF tokAt(items, k + 2) = "extends" /\ WordRunEnd(items, k + 3) > k + 3
             THEN WordRunEnd(items, k + 3) ELSE k + 2
    IN IF tokAt(items, k) = "interface" /\ isWord(items, k + 1)
       THEN Some(Match(i, e, <<exportAt(items, i), items[k + 1].tok>>))
       ELSE None

\* line 140
typeRegex(items, i) ==
    LET k == afterExport(items, i)
    IN IF tokAt(items, k) = "type" /\ isWord(items, k + 1)
          /\ tokAt(items, k + 2) = "="
       THEN Some(Match(i, k + 3, <<exportAt(items, i), items[k + 1].tok>>))
       ELSE None

\* line 229
pyFunctionRegex(items, i) ==
    LET close == RunEnd(items, i + 3, {")"})
        colon == IF tokAt(items, close + 1) = "->"
                 THEN RunEnd(items, close + 2, {":"})
                 ELSE close + 1
    IN IF tokAt(items, i) = "def" /\ isWord(items, i + 1)
          /\ tokAt(items, i + 2) = "(" /\ close <= Len(items)
          /\ tokAt(items, colon) = ":"
          /\ (tokAt(items, close + 1) = "->" => colon > close + 2)
       THEN Some(Match(i, colon + 1, <<items[i + 1].tok>>))
       ELSE None

\* line 232
pyClassRegex(items, i) ==
    LET close == RunEnd(items, i + 3, {")"})
        colon == IF tokAt(items, i + 2) = "(" /\ close <= Len(items)
                 THEN close + 1 ELSE i + 2
    IN IF tokAt(items, i) = "class" /\ isWord(items, i + 1)
          /\ tokAt(items, colon) = ":"
       THEN Some(Match(i, colon + 1, <<items[i + 1].tok>>))
       ELSE None

\* RegExp.prototype.exec at one position
exec(regex, items, i) ==
    CASE regex = "importRegex" -> importRegex(items, i)
      [] regex = "requireRegex" -> requireRegex(items, i)
      [] regex = "exportRegex" -> exportRegex(items, i)
      [] regex = "functionRegex" -> functionRegex(items, i)
      [] regex = "arrowRegex" -> arrowRegex(items, i)
      [] regex = "classRegex" -> classRegex(items, i)
      [] regex = "interfaceRegex" -> interfaceRegex(items, i)
      [] regex = "typeRegex" -> typeRegex(items, i)
      [] regex = "pyFunctionRegex" -> pyFunctionRegex(items, i)
      [] regex = "pyClassRegex" -> pyClassRegex(items, i)

\* while ((match = regex.exec(content)) !== null): the matches of a global
\* pattern from left to right, each search starting where the last match ended
RECURSIVE execAll(_, _, _)
execAll(regex, items, from) ==
    IF from > Len(items) THEN <<>>
    ELSE LET m == exec(regex, items, from)
         IN IF m = None THEN execAll(regex, items, from + 1)
            ELSE <<m[1]>> \o execAll(regex, items, m[1].end)

firstGroups(matches) == [k \in 1..Len(matches) |-> matches[k].g[1]]

\* [...new Set(list)]: the first occurrence of every value, in order
RECURSIVE unique(_)
unique(list) ==
    IF list = <<>> THEN <<>>
    ELSE LET front == unique(SubSeq(list, 1, Len(list) - 1))
             last == list[Len(list)]
         IN IF last \in Range(front) THEN front ELSE Append(front, last)

\* lines 48-70
langMap ==
    (<<".", "t", "s">> :> "typescript") @@ (<<".", "t", "s", "x">> :> "typescript")
    @@ (<<".", "j", "s">> :> "javascript") @@ (<<".", "j", "s", "x">> :> "javascript")
    @@ (<<".", "p", "y">> :> "python") @@ (<<".", "j", "a", "v", "a">> :> "java")
    @@ (<<".", "g", "o">> :> "go") @@ (<<".", "r", "s">> :> "rust")
    @@ (<<".", "c", "p", "p">> :> "cpp") @@ (<<".", "c">> :> "c")
    @@ (<<".", "h">> :> "c") @@ (<<".", "c", "s">> :> "csharp")
    @@ (<<".", "p", "h", "p">> :> "php") @@ (<<".", "r", "b">> :> "ruby")
    @@ (<<".", "j", "s", "o", "n">> :> "json") @@ (<<".", "m", "d">> :> "markdown")
    @@ (<<".", "y", "a", "m", "l">> :> "yaml") @@ (<<".", "y", "m", "l">> :> "yaml")

getLanguage(extension) ==
    IF extension \in DOMAIN langMap THEN langMap[extension] ELSE "text"

isScript(language) == language \in {"typescript", "javascript"}

\* the import statements are gathered before the require calls
extractImports_requireFirst(content, language) ==
    IF isScript(language)
    THEN unique(firstGroups(execAll("requireRegex", content, 1))
                \o firstGroups(execAll("importRegex", content, 1)))
    ELSE <<>>

\* lines 72-90
extractImports(content, language) ==
    IF isScript(language)
    THEN unique(firstGroups(execAll("importRegex", content, 1))
                \o firstGroups(execAll("requireRegex", content, 1)))
    ELSE <<>>

\* lines 92-109
extractExports(content, language) ==
    IF isScript(language)
    THEN firstGroups(execAll("exportRegex", content, 1))
    ELSE <<>>

width(item) == IF item.tok = "blank" THEN item.arg[1] ELSE 1

RECURSIVE widthBetween(_, _, _)
widthBetween(items, from, to) ==
    IF from > to THEN 0
    ELSE width(items[from]) + widthBetween(items, from + 1, to)

\* line.replace(/^\s*\*\s?/, '').trim()
stripLine(line) ==
    LET s == trimLeft(line)
    IN IF s # <<>> /\ Head(s) = "*"
       THEN trim(IF Len(s) >= 2 /\ s[2] = " " THEN SubSeq(s, 3, Len(s)) ELSE Tail(s))
       ELSE trim(line)

\* lines 280-285 on the lines between the opening and the closing mark
jsdocText(lines) ==
    JoinWith(SelectSeq([k \in 1..Len(lines) |-> stripLine(lines[k])],
                       LAMBDA line : Len(line) > 0),
             " ")

distanceLimit == 100

\* lines 268-290: the last doc comment that ends less than 100 characters
\* before the declaration; None stands for undefined
extractJSDocDescription(items, functionIndex) ==
    LET docs == {k \in 1..(functionIndex - 1) :
                    /\ items[k].tok = "/**"
                    /\ widthBetween(items, k + 1, functionIndex - 1) < distanceLimit}
    IN IF docs = {} THEN None
       ELSE Some(jsdocText(items[CHOOSE k \in docs : \A j \in docs : j <= k].arg))

\* lines 292-303: the first line of the first docstring that follows a colon
\* at or after the definition
extractPythonDocstring(items, functionIndex) ==
    LET at == {k \in functionIndex..(Len(items) - 1) :
                  items[k].tok = ":" /\ items[k + 1].tok = "'''"}
    IN IF at = {} THEN None
       ELSE LET lines == items[(CHOOSE k \in at : \A j \in at : k <= j) + 1].arg
                full == {k \in 1..Len(lines) : trim(lines[k]) # <<>>}
                first == CHOOSE k \in full : \A j \in full : k <= j
            IN IF full = {} THEN Some(<<>>)
               ELSE IF \A j \in full : j = first THEN Some(trim(lines[first]))
               ELSE Some(trimLeft(lines[first]))

\* match[0].trim()
signatureOf(items, match) ==
    [k \in 1..(match.end - match.index) |-> items[match.index + k - 1].tok]

FunctionInfo(name, type, signature, description, isExported, isAsync) ==
    [name |-> name, type |-> type, signature |-> signature,
     description |-> description, isExported |-> isExported,
     isAsync |-> isAsync]

\* a function counts as asynchronous when it is exported
addFunctionMatches_asyncIfExported(content, regex) ==
    LET ms == execAll(regex, content, 1)
    IN [k \in 1..Len(ms) |->
          FunctionInfo(ms[k].g[3], "function", signatureOf(content, ms[k]),
                       extractJSDocDescription(content, ms[k].index),
                       ms[k].g[1] # "", ms[k].g[1] # "")]

\* lines 145-167
addFunctionMatches(content, regex) ==
    LET ms == execAll(regex, content, 1)
    IN [k \in 1..Len(ms) |->
          FunctionInfo(ms[k].g[3], "function", signatureOf(content, ms[k]),
                       extractJSDocDescription(content, ms[k].index),
                       ms[k].g[1] # "", ms[k].g[2] # "" \/ ms[k].g[4] # "")]

\* lines 169-191
addArrowMatches(content, regex) ==
    LET ms == execAll(regex, content, 1)
    IN [k \in 1..Len(ms) |->
          FunctionInfo(ms[k].g[3], "function", signatureOf(content, ms[k]),
                       extractJSDocDescription(content, ms[k].index),
                       ms[k].g[1] # "", ms[k].g[4] # "")]

\* lines 193-214
addOtherMatches(content, regex, type) ==
    LET ms == execAll(regex, content, 1)
    IN [k \in 1..Len(ms) |->
          FunctionInfo(ms[k].g[2], type, signatureOf(content, ms[k]),
                       extractJSDocDescription(content, ms[k].index),
                       ms[k].g[1] # "", FALSE)]

\* lines 124-223
extractTSJSFunctions(content) ==
    addFunctionMatches(content, "functionRegex")
    \o addArrowMatches(content, "arrowRegex")
    \o addOtherMatches(content, "classRegex", "class")
    \o addOtherMatches(content, "interfaceRegex", "interface")
    \o addOtherMatches(content, "typeRegex", "type")

\* String.prototype.includes on the lexemes of a match
includes(s, part) ==
    \E k \in 0..(Len(s) - Len(part)) : SubSeq(s, k + 1, k + Len(part)) = part

\* lines 225-266
extractPythonFunctions(content) ==
    LET fs == execAll("pyFunctionRegex", content, 1)
        cs == execAll("pyClassRegex", content, 1)
    IN [k \in 1..Len(fs) |->
          FunctionInfo(fs[k].g[1], "function", signatureOf(content, fs[k]),
                       extractPythonDocstring(content, fs[k].index), TRUE,
                       includes(signatureOf(content, fs[k]), <<"async", "def">>))]
       \o [k \in 1..Len(cs) |->
             FunctionInfo(cs[k].g[1], "class", signatureOf(content, cs[k]),
                          extractPythonDocstring(content, cs[k].index), TRUE,
                          FALSE)]

\* lines 111-122
extractFunctions(content, language) ==
    IF isScript(language) THEN extractTSJSFunctions(content)
    ELSE IF language = "python" THEN extractPythonFunctions(content)
    ELSE <<>>

\* lines 22-46
summarizeCode(content, path) ==
    LET language == getLanguage(toLowerCase(extname(path)))
    IN [path |-> path, language |-> language,
        functions |-> extractFunctions(content, language),
        imports |-> extractImports(content, language),
        exports |-> extractExports(content, language)]

\* lines 321-325: the line of one declaration
declarationLine(func) ==
    (IF func.isExported THEN <<"export">> ELSE <<>>)
    \o (IF func.isAsync THEN <<"async">> ELSE <<>>)
    \o func.signature

truthy(description) == description # None /\ description[1] # <<>>

\* lines 305-330: the heading, the language of the fence, the number of
\* items, the imports when there are any, and per declaration its doc comment
\* when it has a description and its line
formatSummary(summary) ==
    [path |-> summary.path,
     language |-> summary.language,
     count |-> Len(summary.functions),
     imports |-> IF Len(summary.imports) > 0 THEN Some(summary.imports) ELSE None,
     blocks |-> [k \in 1..Len(summary.functions) |->
                    [doc |-> IF truthy(summary.functions[k].description)
                             THEN summary.functions[k].description ELSE None,
                     line |-> declarationLine(summary.functions[k])]]]

(***************************************************************************)
(* The sources summarized below: up to MaxStatements statements in a row.  *)
(***************************************************************************)
\* a comment of several lines and a comment of one line, as the lines
\* between the opening and the closing mark
DocLines ==
    << <<>>, <<" ", "*", " ", "L", "o">>, <<" ", "*">>, <<" ", "*", " ", "a">>,
       <<" ">> >>
ShortDocLines == << <<" ", "x", " ">> >>

ScriptStatements ==
    { Words(<<"import", "fs", "from">>) \o <<Str("fs")>>,
      Words(<<"import", "{", "b", "}", "from">>) \o <<Str("q")>>,
      Words(<<"import", "a", ",", "{", "b", "}", "from">>) \o <<Str("q")>>,
      Words(<<"const", "u", "=", "require", "(">>) \o <<Str("./u"), T(")")>>,
      Words(<<"const", "v", "=", "require", "(">>) \o <<Str("fs"), T(")")>>,
      Words(<<"require", "(">>) \o <<Str("n"), T(")")>>,
      <<JSDoc(DocLines)>>
        \o Words(<<"export", "async", "function", "loadConfig", "(", "p", ")",
                   ":", "P", "{", "}">>),
      <<JSDoc(ShortDocLines), Blank(distanceLimit - 1)>>
        \o Words(<<"function", "near", "(", ")", "{", "}">>),
      <<JSDoc(ShortDocLines)>>
        \o Words(<<"export", "function", "f", "(", ")", "{", "}">>),
      <<JSDoc(DocLines), Blank(distanceLimit)>>
        \o Words(<<"function", "far", "(", ")", "{", "}">>),
      Words(<<"export", "default", "function", "h", "(", ")", "{", "}">>),
      Words(<<"async", "function", "g", "(", ")", "{", "}">>),
      Words(<<"export", "class", "AppRuntime", "{", "}">>),
      Words(<<"export", "interface", "I", "{", "}">>),
      Words(<<"export", "type", "Y", "=", "I">>),
      Words(<<"export", "const", "c", "=", "one">>),
      Words(<<"const", "helper", "=", "(", ")", "=>", "{", "}">>),
      Words(<<"export", "const", "w", "=", "async", "(", ")", "=>", "{", "}">>) }

PythonStatements ==
    { Words(<<"def", "f", "(", ")", ":">>),
      Words(<<"async", "def", "g", "(", "x", ")", "->", "int", ":">>)
        \o <<DocString(<< <<" ">>, <<" ", "d", " ">>, <<"e">> >>)>>,
      Words(<<"class", "K", ":">>),
      Words(<<"class", "L", "(", "K", ")", ":">>) }

RECURSIVE Concat(_)
Concat(parts) == IF parts = <<>> THEN <<>> ELSE Head(parts) \o Concat(Tail(parts))

Sources(statements) == {Concat(q) : q \in SeqsUpTo(statements, MaxStatements)}

APP_TS == <<"s", "/", "a", ".", "T", "S">>
APP_PY == <<"a", ".", "p", "y">>
NOTES_MD == <<"n", ".", "m", "d">>

SummaryInputs ==
    {[source |-> c, filePath |-> p] :
        c \in Sources(ScriptStatements), p \in {APP_TS, NOTES_MD}}
    \cup {[source |-> c, filePath |-> APP_PY] : c \in Sources(PythonStatements)}

SummarizeCalls ==
    {[fn |-> f, source |-> i.source, filePath |-> i.filePath] :
        f \in {"summarizeCode", "formatSummary"}, i \in SummaryInputs}

TruncateCalls ==
    {[fn |-> "truncateContent", content |-> c, maxLength |-> n] :
        c \in SeqsUpTo({"a", "b"}, MaxChars), n \in (-1)..(MaxChars + 1)}

PureCalls == TruncateCalls \cup SummarizeCalls

PureInit ==
    /\ PackagerIdle
    /\ StatsIdle
    /\ ReaderIdle
    /\ call \in {Some(c) : c \in PureCalls}
    /\ answer = None

Pending(fn) == call # None /\ answer = None /\ call[1].fn = fn

TruncateContent ==
    /\ Pending("truncateContent")
    /\ answer' = Some(truncateContent(call[1].content, call[1].maxLength))
    /\ UNCHANGED <<PackagerVars, Discovery, stats, tracked, wasReset, Reader, call>>

SummarizeCode ==
    /\ Pending("summarizeCode")
    /\ answer' = Some(summarizeCode(call[1].source, call[1].filePath))
    /\ UNCHANGED <<PackagerVars, Discovery, stats, tracked, wasReset, Reader, call>>

\* packager.ts lines 507-510: the block of one file in summary mode
FormatSummary ==
    /\ Pending("formatSummary")
    /\ answer' = Some(formatSummary(summarizeCode(call[1].source,
                                                  call[1].filePath)))
    /\ UNCHANGED <<PackagerVars, Discovery, stats, tracked, wasReset, Reader, call>>

PureNext ==
    \/ TruncateContent
    \/ SummarizeCode
    \/ FormatSummary

SpecPure == PureInit /\ [][PureNext]_vars


(***************************************************************************)
(* Properties.                                                             *)
(***************************************************************************)
\* everything the admission loop accumulates
Accumulators(l) ==
    <<l.fileInfos, l.currentTokens, l.fileTypes, l.largestFile,
      l.totalCharacters, l.processedDirectories>>

\* a step of analyzeRepository itself, not of the environment
ProgramStep == removed' = removed /\ loc' # loc
NoFault == envEvents' = envEvents

\* the candidate under examination passes the existence and size checks and
\* can be read
CandidateReadable ==
    /\ pc = "process"
    /\ existsSync(fullPath)
    /\ (maxFileSize = 0 \/ statSize(fullPath) <= maxFileSize)
    /\ ReadErrno(fullPath) = ""

CandidateTokens == (ContentLength(fsContent[NodeOf(fullPath)]) + 2) \div 4

NoDuplicates(q) == \A i, j \in 1..Len(q) : q[i] = q[j] => i = j

IsPrefix(q, r) == Len(q) <= Len(r) /\ SubSeq(r, 1, Len(q)) = q

\* C1: with a positive token budget B the candidates are examined in
\* discovery order, one per step, and the first candidate whose cost would
\* bring the running total above B ends the call: the result is exactly
\* the list admitted before it, whatever candidates follow.
C1_BudgetStopsProcessing ==
    [][ /\ (pc = "process" /\ ProgramStep)
            => /\ loc'.fileIdx = loc.fileIdx + 1
               /\ loc'.allFilePaths = loc.allFilePaths
               /\ \/ loc'.fileInfos = loc.fileInfos
                  \/ /\ Len(loc'.fileInfos) = Len(loc.fileInfos) + 1
                     /\ IsPrefix(loc.fileInfos, loc'.fileInfos)
                     /\ loc'.fileInfos[Len(loc'.fileInfos)].path = filePath
        /\ (CandidateReadable /\ removed' = removed /\ NoFault /\ maxTokens > 0
              /\ loc.currentTokens + CandidateTokens > maxTokens)
            => /\ pc' = "done"
               /\ loc' = loc
               /\ repoInfo'.files = loc.fileInfos ]_vars

\* a call stopped by the budget after admitting a file, with a later candidate
\* left that would still have fitted
C1_Witness ==
    /\ pc = "done"
    /\ maxTokens > 0
    /\ removed = {}
    /\ Len(repoInfo.files) >= 1
    /\ loc.fileIdx < Len(loc.allFilePaths)
    /\ \E k \in (loc.fileIdx + 1)..Len(loc.allFilePaths) :
          LET full == fullPathOf(loc.primaryPath, loc.allFilePaths[k])
          IN /\ ReadErrno(full) = ""
             /\ KindOf(NodeOf(full)) = "file"
             /\ calculateTokens(fsContent[NodeOf(full)]) > 0
             /\ loc.currentTokens + calculateTokens(fsContent[NodeOf(full)])
                   <= maxTokens

RECURSIVE SumLengths(_)
SumLengths(files) ==
    IF Len(files) = 0 THEN 0
    ELSE ContentLength(Head(files).content) + SumLengths(Tail(files))

\* C2: a candidate larger than maxFileSize is never in the file list and the
\* step that meets it changes no accumulator, so the totals are those of
\* the admitted files alone; a candidate of exactly the limit that is
\* readable and within the token budget is admitted.
C2_OversizedNeverAdmitted ==
    /\ [](maxFileSize > 0 =>
            /\ \A i \in 1..Len(loc.fileInfos) : loc.fileInfos[i].size <= maxFileSize
            /\ \A i \in 1..Len(repoInfo.files) : repoInfo.files[i].size <= maxFileSize)
    /\ [](pc = "done" =>
            /\ repoInfo.totalFiles = Len(repoInfo.files)
            /\ repoInfo.totalCharacters = SumLengths(repoInfo.files)
            /\ repoInfo.totalLines = calculateTotalLines(repoInfo.files)
            /\ repoInfo.totalTokens = loc.currentTokens)
    /\ [][ /\ (pc = "process" /\ ProgramStep /\ existsSync(fullPath) /\ NoFault
                /\ maxFileSize > 0 /\ statSize(fullPath) > maxFileSize)
              => /\ Accumulators(loc') = Accumulators(loc)
                 /\ loc'.fileIdx = loc.fileIdx + 1
           /\ (CandidateReadable /\ removed' = removed /\ NoFault
                /\ maxFileSize > 0 /\ statSize(fullPath) = maxFileSize
                /\ (maxTokens = 0 \/ loc.currentTokens + CandidateTokens <= maxTokens))
              => /\ Len(loc'.fileInfos) = Len(loc.fileInfos) + 1
                 /\ loc'.fileInfos[Len(loc'.fileInfos)].size = maxFileSize ]_vars

\* a finished call that met a candidate above the limit and admitted one of
\* exactly the limit
C2_Witness ==
    /\ pc = "done"
    /\ maxFileSize > 0
    /\ removed = {}
    /\ \E k \in 1..Len(loc.allFilePaths) :
          LET full == fullPathOf(loc.primaryPath, loc.allFilePaths[k])
          IN /\ KindOf(NodeOf(full)) = "file"
             /\ statSize(full) > maxFileSize
             /\ k < loc.fileIdx
    /\ \E i \in 1..Len(repoInfo.files) : repoInfo.files[i].size = maxFileSize

\* C3 as claimed: after analyzeRepository no two FileRecords of the result
\* have the same path, whatever the inputs.
C3_PathsUnique ==
    pc = "done" => NoDuplicates(PathsOf(repoInfo.files))

\* C3 amended: when the collected candidate list holds no path twice, no two
\* FileRecords of the result have the same path.
C3_PathsUniqueAmongDistinctCandidates ==
    /\ NoDuplicates(loc.allFilePaths) => NoDuplicates(PathsOf(loc.fileInfos))
    /\ (pc = "done" /\ NoDuplicates(loc.allFilePaths))
          => NoDuplicates(PathsOf(repoInfo.files))

\* a finished call on two inputs with distinct candidates and several records
C3_Witness ==
    /\ pc = "done"
    /\ Len(paths) = 2
    /\ NoDuplicates(loc.allFilePaths)
    /\ Len(repoInfo.files) >= 3

\* C4: after a call totalFiles is the number of FileRecords, and the histogram
\* counts each record once under its lower-cased extension, or under ".txt"
\* when it has none, so its counts sum to totalFiles.
C4_HistogramCountsEveryFile ==
    pc = "done" =>
        LET files == repoInfo.files
            KeyOf(p) == IF extname(p) = <<>> THEN <<".", "t", "x", "t">>
                        ELSE [i \in 1..Len(extname(p)) |->
                                IF extname(p)[i] = "T" THEN "t" ELSE extname(p)[i]]
            keys == {KeyOf(files[i].path) : i \in 1..Len(files)}
        IN /\ repoInfo.totalFiles = Len(files)
           /\ DOMAIN repoInfo.fileTypes = keys
           /\ \A k \in keys :
                 repoInfo.fileTypes[k] =
                    Cardinality({i \in 1..Len(files) : KeyOf(files[i].path) = k})

\* a result holding a file with an upper-case extension and one without
\* extension
C4_Witness ==
    /\ pc = "done"
    /\ \E i, j \in 1..Len(repoInfo.files) :
          /\ extname(repoInfo.files[i].path) = <<".", "T">>
          /\ extname(repoInfo.files[j].path) = <<>>
    /\ <<".", "t">> \in DOMAIN repoInfo.fileTypes
    /\ <<".", "t", "x", "t">> \in DOMAIN repoInfo.fileTypes

IsDirInput(i) == existsSync(paths[i]) /\ isDirectory(paths[i])
IsFileInput(i) == existsSync(paths[i]) /\ isFile(paths[i])
NoDirInput == \A i \in 1..Len(paths) : ~IsDirInput(i)

\* C5 as claimed: the primary path is the first input that is an existing
\* directory; failing that the parent directory of the first input that is an
\* existing file, wherever it stands; and "." when no input exists.
C5_PrimaryPathFirstExistingFile ==
    (pc # "idle" /\ removed = {}) =>
        /\ \A i \in 1..Len(paths) :
              (IsDirInput(i) /\ \A j \in 1..(i - 1) : ~IsDirInput(j))
                 => loc.primaryPath = paths[i]
        /\ \A i \in 1..Len(paths) :
              (NoDirInput /\ IsFileInput(i) /\ \A j \in 1..(i - 1) : ~IsFileInput(j))
                 => loc.primaryPath = dirname(paths[i])
        /\ (\A i \in 1..Len(paths) : ~existsSync(paths[i]))
              => loc.primaryPath = <<DOT>>

\* C5 amended: the primary path is the first input that is an existing
\* directory; failing that it depends on the first input alone: its parent
\* directory when it is an existing file, the input itself when it exists
\* and is not a file, and "." when it does not exist or there is no input.
C5_PrimaryPathFromFirstInput ==
    (pc # "idle" /\ removed = {}) =>
        /\ \A i \in 1..Len(paths) :
              (IsDirInput(i) /\ \A j \in 1..(i - 1) : ~IsDirInput(j))
                 => loc.primaryPath = paths[i]
        /\ (NoDirInput /\ Len(paths) > 0 /\ IsFileInput(1))
              => loc.primaryPath = dirname(paths[1])
        /\ (NoDirInput /\ Len(paths) > 0 /\ existsSync(paths[1]) /\ ~IsFileInput(1))
              => loc.primaryPath = paths[1]
        /\ (NoDirInput /\ (Len(paths) = 0 \/ ~existsSync(paths[1])))
              => loc.primaryPath = <<DOT>>

\* a call whose first input is missing and whose second is an existing file
C5_Witness ==
    /\ pc # "idle"
    /\ removed = {}
    /\ Len(paths) = 2
    /\ ~existsSync(paths[1])
    /\ IsFileInput(2)
    /\ loc.primaryPath = <<DOT>>


\* C6 as claimed: the location shown by the document is the primary path
\* that analyzeRepository selected and handed to the VCS lookup.
C6_LocationIsPrimaryPath ==
    output # None => output[1].location = resolve(loc.primaryPath)

FileErrorKinds ==
    {"no_longer_exists", "not_found", "permission_denied", "is_directory",
     "could_not_read"}

\* the step examines a candidate that is gone, or whose stat or read fails
CandidateFails ==
    /\ pc = "process"
    /\ removed' = removed
    /\ (loc' # loc \/ pc' # pc)
    /\ \/ ~existsSync(fullPath)
       \/ ~NoFault
       \/ /\ (maxFileSize = 0 \/ statSize(fullPath) <= maxFileSize)
          /\ ReadErrno(fullPath) # ""

\* C7: a failure on one candidate skips that candidate only: the step adds one
\* diagnostic for it, changes no accumulator, and the loop goes on with the
\* next candidate, or ends normally with the files admitted so far.
C7_FileFailureSkipsOnlyThatFile ==
    [][ CandidateFails =>
          /\ Accumulators(loc') = Accumulators(loc)
          /\ loc'.fileIdx = loc.fileIdx + 1
          /\ Len(log') = Len(log) + 1
          /\ IsPrefix(log, log')
          /\ log'[Len(log')].path = filePath
          /\ log'[Len(log')].kind \in FileErrorKinds
          /\ IF loc'.fileIdx <= Len(loc.allFilePaths)
             THEN pc' = "process" /\ repoInfo' = repoInfo
             ELSE pc' = "done" /\ repoInfo'.files = loc.fileInfos ]_vars

\* a finished call that reported a failing candidate and admitted the last
\* candidate of the list after it
C7_Witness ==
    /\ pc = "done"
    /\ maxFileSize = 0
    /\ \E i \in 1..Len(log) : log[i].kind \in FileErrorKinds
    /\ Len(loc.allFilePaths) >= 2
    /\ loc.fileIdx = Len(loc.allFilePaths) + 1
    /\ Len(repoInfo.files) >= 1
    /\ repoInfo.files[Len(repoInfo.files)].path
          = loc.allFilePaths[Len(loc.allFilePaths)]
    /\ log[Len(log)].path # loc.allFilePaths[Len(loc.allFilePaths)]

CauseKind(errno) ==
    IF errno = "ENOENT" THEN "not_found"
    ELSE IF errno = "EACCES" THEN "permission_denied"
    ELSE IF errno = "EISDIR" THEN "is_directory"
    ELSE "could_not_read"

\* C8 as claimed: every failure caught by the admission loop is reported with
\* the message of its cause, in the stat step and in the read step alike.
C8_FailureReportedByCause ==
    \A i \in 1..Len(log) :
        log[i].kind \in {"not_found", "permission_denied", "is_directory",
                         "could_not_read"}
           => log[i].kind = CauseKind(log[i].cause)

InputUnusable(p) ==
    \/ ~existsSync(p)
    \/ ~canRead(p)
    \/ (~isFile(p) /\ ~isDirectory(p))

ExistingListed(p) ==
    Cardinality({i \in 1..Len(Listing(NodeOf(p))) :
                    KindOf(NodeOf(p) \o <<SEP>> \o Listing(NodeOf(p))[i]) = "file"})

\* C9: an input that is missing or cannot be read is reported and adds no
\* candidate; every other input appends its candidates after those
\* collected before; the loop always goes on to the next input; and when
\* every input is unusable the result is empty with all statistics zero.
C9_UnusableInputSkipped ==
    /\ [][ /\ (pc = "collect" /\ removed' = removed /\ loc' # loc
                /\ (InputUnusable(singlePath) \/ ~NoFault))
              => /\ loc'.allFilePaths = loc.allFilePaths
                 /\ Len(log') = Len(log) + 1
                 /\ IsPrefix(log, log')
                 /\ log'[Len(log')].path = singlePath
           /\ (pc = "collect" /\ removed' = removed /\ loc' # loc
                /\ ~InputUnusable(singlePath) /\ NoFault)
              => /\ IsPrefix(loc.allFilePaths, loc'.allFilePaths)
                 /\ log' = log
                 /\ Len(loc'.allFilePaths) - Len(loc.allFilePaths)
                      = IF isFile(singlePath) THEN 1 ELSE ExistingListed(singlePath)
           /\ (pc = "collect" /\ removed' = removed /\ loc' # loc)
              => /\ loc'.inputIdx = loc.inputIdx + 1
                 /\ loc'.inputIdx <= Len(paths) => pc' = "collect"
                 /\ pc' \in {"collect", "process", "done"} ]_vars
    /\ []((pc = "done" /\ envEvents = 0
             /\ \A i \in 1..Len(paths) : InputUnusable(paths[i]))
            => /\ repoInfo.files = <<>>
               /\ repoInfo.totalFiles = 0
               /\ repoInfo.totalLines = 0
               /\ repoInfo.totalTokens = 0
               /\ repoInfo.totalCharacters = 0
               /\ repoInfo.directoriesProcessed = 0
               /\ DOMAIN repoInfo.fileTypes = {}
               /\ repoInfo.largestFile = None
               /\ repoInfo.averageFileSize = 0)

\* a finished call whose first input is missing and reported, and whose second
\* input still delivered files
C9_Witness ==
    /\ pc = "done"
    /\ Len(paths) = 2
    /\ ~existsSync(paths[1])
    /\ Len(log) >= 1
    /\ log[1].kind = "path_missing"
    /\ log[1].path = paths[1]
    /\ Len(repoInfo.files) >= 2

\* C10: a second analyzeRepository call on the same Packager, with nothing
\* changed in between, leaves exactly the result of the first call: same
\* ordered file list, same statistics.
C10_SecondRunSameResult ==
    (pc = "done" /\ prevInfo # None /\ envEvents = 0) => prevInfo = Some(repoInfo)

\* a second call that finished on an unmodified tree with several files
C10_Witness ==
    /\ pc = "done"
    /\ prevInfo # None
    /\ envEvents = 0
    /\ Len(repoInfo.files) >= 2
    /\ repoInfo.totalTokens > 0

\* the tracker after trackFile on each of files in turn, starting from s
RECURSIVE TrackAll(_, _)
TrackAll(s, files) ==
    IF Len(files) = 0 THEN s
    ELSE TrackAll(trackFile(s, Head(files)), Tail(files))

\* texts of one line of 0 to 9 characters, and the texts of the file system
TokenSamples == {<<n>> : n \in 0..9} \cup {Short, Long}

RECURSIVE SumTokens(_)
SumTokens(files) ==
    IF Len(files) = 0 THEN 0
    ELSE ((ContentLength(Head(files).content) + 2) \div 4) + SumTokens(Tail(files))

\* C11: calculateTokens(c) is floor((length(c) + 2) / 4) ('abcd' -> 1,
\* 'abcdefgh' -> 2, 'abc' -> 1); the amount the Packager adds to its running
\* total for an admitted file, the amount its budget check compares, its
\* totalTokens and the count of a RepositoryStatistics that tracked the same
\* files are all calculateTokens of the file's content.
C11_TokensAreCalculateTokens ==
    /\ [](/\ \A c \in TokenSamples :
               calculateTokens(c) = (ContentLength(c) + 2) \div 4
          /\ calculateTokens(<<4>>) = 1
          /\ calculateTokens(<<8>>) = 2
          /\ calculateTokens(<<3>>) = 1)
    /\ [](pc = "done" =>
            /\ repoInfo.totalTokens = SumTokens(repoInfo.files)
            /\ repoInfo.totalTokens = loc.currentTokens
            /\ repoInfo.totalTokens
                  = getCurrentTokens(TrackAll(FreshStatistics, repoInfo.files)))
    /\ [][ /\ (pc = "process" /\ Len(loc'.fileInfos) = Len(loc.fileInfos) + 1)
              => loc'.currentTokens = loc.currentTokens
                   + calculateTokens(loc'.fileInfos[Len(loc'.fileInfos)].content)
           /\ (CandidateReadable /\ removed' = removed /\ NoFault /\ loc' # loc)
              => ~wouldExceedTokenLimit(TrackAll(FreshStatistics, loc.fileInfos),
                                        fsContent[NodeOf(fullPath)], maxTokens)
           /\ (CandidateReadable /\ removed' = removed /\ NoFault
                 /\ pc' = "done" /\ loc' = loc)
              => wouldExceedTokenLimit(TrackAll(FreshStatistics, loc.fileInfos),
                                       fsContent[NodeOf(fullPath)], maxTokens) ]_vars

\* a finished call under a budget that admitted a file whose quotient length/4
\* ends in one half
C11_Witness ==
    /\ pc = "done"
    /\ maxTokens > 0
    /\ Len(repoInfo.files) >= 1
    /\ \E i \in 1..Len(repoInfo.files) :
          ContentLength(repoInfo.files[i].content) % 4 = 2
    /\ repoInfo.totalTokens > 0

MaxOf(S) == CHOOSE x \in S : \A y \in S : y <= x

\* C12: getLargestFile is null exactly when no file was tracked; otherwise
\* its lines is the greatest line count among the tracked files and its path
\* is that of the first tracked file with that line count.
C12_LargestIsFirstMaximum ==
    /\ (getLargestFile(stats) = None) <=> (tracked = <<>>)
    /\ tracked # <<>> =>
          LET top == MaxOf({tracked[i].lines : i \in 1..Len(tracked)})
              first == Min({i \in 1..Len(tracked) : tracked[i].lines = top})
          IN getLargestFile(stats)
               = Some([path |-> tracked[first].path, lines |-> top])

\* a smaller file, then two files of the greatest line count at different
\* paths
C12_Witness ==
    /\ Len(tracked) = 3
    /\ tracked[1].lines < tracked[2].lines
    /\ tracked[3].lines = tracked[2].lines
    /\ tracked[3].path # tracked[2].path
    /\ getLargestFile(stats) # None
    /\ getLargestFile(stats)[1].path = tracked[2].path

\* what the getters of a tracker return
Observed(s) ==
    <<getTotalCharacters(s), getCurrentTokens(s), getFileTypes(s),
      getLargestFile(s), getDirectoriesProcessedCount(s)>>

\* C13: after reset every getter returns its initial value (0 characters,
\* 0 tokens, empty histogram, null largest file, 0 directories), and the
\* calls made since the reset give what they give on a new tracker: the
\* same getter values and the same answers of wouldExceedTokenLimit.
C13_ResetRestoresInitialState ==
    LET fresh == TrackAll(FreshStatistics, tracked)
    IN /\ tracked = <<>> => Observed(stats) = <<0, 0, <<>>, None, 0>>
       /\ Observed(stats) = Observed(fresh)
       /\ \A c \in {Short, Long}, limit \in 0..3 :
             wouldExceedTokenLimit(stats, c, limit)
                = wouldExceedTokenLimit(fresh, c, limit)

\* a tracker that was reset after tracking and has tracked two files since
C13_Witness ==
    /\ wasReset
    /\ Len(tracked) = 2
    /\ getCurrentTokens(stats) > 0
    /\ getDirectoriesProcessedCount(stats) > 0

\* a FileInfo of n lines
FileOfLines(n) ==
    [path |-> <<"a", "/", "n">>, content |-> Short, lines |-> n, size |-> 2]

\* r is total / count rounded to the nearest integer, halves upwards
IsRounded(r, total, count) ==
    /\ 2 * total - count < 2 * count * r
    /\ 2 * count * r <= 2 * total + count

\* C14: the average file size is totalLines / totalFiles rounded to the
\* nearest integer and 0 for no files; lines 10, 20, 25 give 18; after a run
\* the Packager's averageFileSize is calculateAverageFileSize of the
\* admitted files.
C14_AverageIsRoundedMean ==
    /\ calculateAverageFileSize(<<>>) = 0
    /\ calculateAverageFileSize(
          <<FileOfLines(10), FileOfLines(20), FileOfLines(25)>>) = 18
    /\ \A i, j \in 1..4 :
          IsRounded(calculateAverageFileSize(<<FileOfLines(i), FileOfLines(j)>>),
                    i + j, 2)
    /\ pc = "done" =>
          /\ repoInfo.averageFileSize = calculateAverageFileSize(repoInfo.files)
          /\ repoInfo.totalFiles = 0 => repoInfo.averageFileSize = 0
          /\ repoInfo.totalFiles > 0 =>
                IsRounded(repoInfo.averageFileSize,
                          calculateTotalLines(repoInfo.files), Len(repoInfo.files))

\* a finished call whose mean line count is not a whole number
C14_Witness ==
    /\ pc = "done"
    /\ repoInfo.totalFiles >= 2
    /\ repoInfo.totalLines % repoInfo.totalFiles # 0
    /\ repoInfo.averageFileSize * repoInfo.totalFiles > repoInfo.totalLines

\* C15: the directories-processed count is the number of distinct dirname
\* values of the tracked files' paths other than ".": several files of one
\* directory count once and files directly in "." add nothing.
C15_DirectoriesAreDistinctParents ==
    getDirectoriesProcessedCount(stats)
       = Cardinality({dirname(tracked[i].path) : i \in 1..Len(tracked)} \ {<<DOT>>})

\* two files of one directory and a file directly in "."
C15_Witness ==
    /\ Len(tracked) = 3
    /\ dirname(tracked[1].path) = dirname(tracked[2].path)
    /\ tracked[1].path # tracked[2].path
    /\ dirname(tracked[3].path) = <<DOT>>
    /\ getDirectoriesProcessedCount(stats) = 1

\* the collection loop has run to its end without an input failing
Collected == pc \in {"process", "done"} /\ envEvents = 0

\* the readable directories among the inputs
DirInputs == {i \in 1..Len(paths) : isDirectory(paths[i]) /\ canRead(paths[i])}

\* the files below the directory, as path.join(directory, file) names them
FilesBelow(d) == {f \in Range(Listing(NodeOf(d))) : isFile(join(d, f))}

\* the patterns of the three ignore sources of the directory
IgnoreUnion(d) == Range(DEFAULT_IGNORE_PATTERNS) \cup Range(ignorePatternsOf(d)) \cup Range(exclude)

\* C16: a file under a directory input is a candidate iff it matches at
\* least one include pattern (any file when no include pattern is given) and
\* matches none of the patterns of the built-in ignore list, the project's
\* ignore file and the user's exclude patterns.
C16_CandidateIffIncludedAndNotIgnored ==
    (Collected /\ recent = 0) =>
        \A i \in DirInputs : \A f \in FilesBelow(paths[i]) :
            join(paths[i], f) \in Range(loc.allFilePaths)
               <=> /\ include = <<>> \/ \E p \in Range(include) : Matches(f, p, FALSE)
                   /\ \A p \in IgnoreUnion(paths[i]) : ~Matches(f, p, TRUE)

\* C17: an existing, readable file named as an input adds exactly one
\* candidate, its path relative to the primary path, whatever the built-in
\* ignore list, the ignore file, the exclude and the include patterns say.
C17_FileInputBypassesRules ==
    [][(pc = "collect" /\ isFile(singlePath) /\ canRead(singlePath)
            /\ envEvents' = envEvents)
          => loc'.allFilePaths
                = Append(loc.allFilePaths, relativePath(loc.primaryPath, singlePath))]_vars

\* g/k.log was named as an input and is a candidate although the include
\* patterns do not match it and each of the three ignore sources does
C17_Witness ==
    /\ Collected
    /\ G_k \in Range(paths)
    /\ Cardinality({j \in 1..Len(loc.allFilePaths) :
                       loc.allFilePaths[j] = relativePath(loc.primaryPath, G_k)}) = 1
    /\ relativePath(loc.primaryPath, G_k) = E_k
    /\ include # <<>>
    /\ ~MatchesAny(E_k, include, FALSE)
    /\ MatchesAny(E_k, DEFAULT_IGNORE_PATTERNS, TRUE)
    /\ MatchesAny(E_k, ignorePatternsOf(G), TRUE)
    /\ MatchesAny(E_k, exclude, TRUE)

\* the later of the two times of a file
lastModifiedOf(n) == MaxOf({fileTimes[n].mtime, fileTimes[n].ctime})

\* C18: with a recency window of N days, a file discovered under a directory
\* input is kept as a candidate iff the later of its content-modify time and
\* its metadata-change time is no earlier than N days before the evaluation
\* time; a file whose times cannot be read is dropped.
C18_RecencyKeepsLaterOfTimes ==
    (Collected /\ recent # 0) =>
        \A i \in DirInputs :
            \A f \in Range(collectFiles(paths[i], include, exclude, 0)) :
                join(paths[i], f) \in Range(loc.allFilePaths)
                   <=> /\ NodeOf(join(paths[i], f)) \notin unstatable
                       /\ lastModifiedOf(NodeOf(join(paths[i], f))) >= Now - recent

\* g/x.t is kept for its change time alone, which lies exactly on the
\* cutoff; g/d/z.t is new but its times cannot be read, so it is dropped,
\* while its neighbour g/d/k.log is kept
C18_Witness ==
    /\ Collected
    /\ recent # 0
    /\ paths = <<G>>
    /\ fileTimes[N_gx].mtime < Now - recent
    /\ fileTimes[N_gx].ctime = Now - recent
    /\ join(G, E_x) \in Range(loc.allFilePaths)
    /\ N_gdz \in unstatable
    /\ E_dz \in Range(collectFiles(G, include, exclude, 0))
    /\ join(G, E_dz) \notin Range(loc.allFilePaths)
    /\ join(G, E_dk) \in Range(loc.allFilePaths)

\* the extension of the path is in the table when letter case is set aside
HasBinaryExtension(p) ==
    \E e \in Range(binaryExtensions) : toLowerCase(extname(p)) = toLowerCase(e)

\* number of characters of [Binary file: NAME (SIZE bytes)]
PlaceholderLength(name, size) == 14 + Len(name) + 2 + Digits(size) + 8

\* C19: for a path whose extension, compared without regard to case, is in
\* the binary-extension table, readFileContents does not read the file and
\* returns the placeholder that names the basename and the byte size; the
\* record made of it has the placeholder as content, its one line and its
\* token estimate.
C19_BinaryGivesPlaceholder ==
    (returned # None /\ onDisk # None /\ HasBinaryExtension(readPath)) =>
        /\ ~returned[1].threw
        /\ "readFile" \notin Range(returned[1].calls)
        /\ returned[1].parts = BinaryPlaceholder(basename(readPath), onDisk.size)
        /\ fileRecord # None =>
              /\ fileRecord[1].info.content
                    = <<PlaceholderLength(basename(readPath), onDisk.size)>>
              /\ fileRecord[1].info.lines = 1
              /\ fileRecord[1].fileTokens
                    = MathRound(PlaceholderLength(basename(readPath), onDisk.size), 4)

\* h/p.O, longer than the ceiling, has been read and recorded
C19_Witness ==
    /\ readPath = <<"h", "/", "p", ".", "O">>
    /\ onDisk # None
    /\ onDisk.size > maxSize
    /\ fileRecord # None
    /\ fileRecord[1].info.lines = 1

\* the whole-line prefixes of a text that have at most ceiling characters,
\* by their number of lines
WholeLinePrefixes(c, ceiling) ==
    {k \in 1..Len(c) : ContentLength(SubSeq(c, 1, k)) <= ceiling}

\* a call on a file that is there and has no binary extension
TextRead == returned # None /\ onDisk # None /\ ~HasBinaryExtension(readPath)

\* C20 as stated: text of at most 16384 characters is returned unchanged;
\* of a longer text the longest prefix that ends at a line boundary and has
\* at most 16384 characters is returned, followed by the truncation marker
\* with the shown and the original size.
C20_TruncatesAtLastLineBoundary ==
    TextRead =>
        IF ContentLength(onDisk.content) <= maxSize
        THEN contentOf(returned[1].parts) = onDisk.content
        ELSE /\ WholeLinePrefixes(onDisk.content, maxSize) # {}
             /\ returned[1].parts
                   = TruncatedText(SubSeq(onDisk.content, 1,
                                          MaxOf(WholeLinePrefixes(onDisk.content, maxSize))),
                                   ContentLength(onDisk.content))

\* the whole-line prefixes whose closing line break lies after the first
\* and before the last of the first ceiling + 1 characters
InnerLinePrefixes(c, ceiling) ==
    {k \in 1..(Len(c) - 1) :
        /\ ContentLength(SubSeq(c, 1, k)) >= 1
        /\ ContentLength(SubSeq(c, 1, k)) <= ceiling - 1}

\* C20 amended: for a file that is neither binary nor named package.json or
\* tsconfig.json, text of at most 16384 characters is returned unchanged; of
\* a longer text the first 16384 characters are taken and cut before their
\* last line break when that break is not their first character, so a line
\* break at index 16384 is never the place of the cut; without such a break
\* all 16384 characters are kept.  An empty line and the truncation marker
\* with the kept and the original length follow.
C20_TruncatesBeforeLastInnerBreak ==
    (TextRead /\ basename(readPath) \notin {PACKAGE_JSON, TSCONFIG_JSON}) =>
        LET c == onDisk.content
            inner == InnerLinePrefixes(c, maxSize)
            kept == IF inner # {} THEN SubSeq(c, 1, MaxOf(inner))
                    ELSE substring0(c, maxSize)
        IN IF ContentLength(c) <= maxSize
           THEN returned[1].parts = PlainText("text", c)
           ELSE /\ returned[1].parts = TruncatedText(kept, ContentLength(c))
                /\ contentOf(returned[1].parts)
                      = kept \o <<0, 35 + Digits(ContentLength(kept)) + 15
                                       + Digits(ContentLength(c)) + 1>>

\* x.t has a line break at index 1 and one exactly at index 16384; the text
\* returned is cut at the first of them
C20_Witness ==
    /\ readPath = E_x
    /\ returned # None
    /\ onDisk # None
    /\ onDisk.content = <<1, maxSize - 2, 1>>
    /\ returned[1].parts.kind = "truncated"
    /\ returned[1].parts.kept = <<1>>
    /\ returned[1].parts.shown = 1
    /\ returned[1].parts.original = maxSize + 2

\* the call of fn has returned
Returned(fn) == call # None /\ answer # None /\ call[1].fn = fn

\* the first n characters of a text
FirstChars(s, n) == [i \in 1..n |-> s[i]]

\* C21: truncateContent(c, maxLen) returns c unchanged whenever c has at most
\* maxLen characters, also when it has exactly maxLen, and the first maxLen
\* characters of c followed by "... [truncated]" whenever c is longer.
C21_TruncateContentCutsAtMaxLength ==
    Returned("truncateContent") =>
        LET c == call[1].content
            maxLen == call[1].maxLength
        IN IF Len(c) <= maxLen THEN answer[1] = c
           ELSE answer[1] = FirstChars(c, maxLen) \o TRUNCATED

\* a text of exactly maxLen characters came back as it was
C21_Witness ==
    /\ Returned("truncateContent")
    /\ call[1].maxLength = 2
    /\ Len(call[1].content) = 2
    /\ answer[1] = call[1].content

(***************************************************************************)
(* Properties of the document (SpecDocument)                               *)
(***************************************************************************)
Headings(sections) == [i \in 1..Len(sections) |-> sections[i].heading]

SnapshotLines == {"Commit", "Branch", "Author", "Date"}

\* C22: the document has its sections in one order: location, VCS section,
\* the note on recent changes exactly when a recency window is set, tree,
\* per-file contents in the order of the result, statistics; without a VCS
\* snapshot the VCS section is the notice and no section has a commit,
\* branch, author or date line
C22_SectionsInFixedOrder ==
    output # None =>
        LET s == output[1].sections
            k == IF recent # 0 THEN 1 ELSE 0
        IN /\ Headings(s) =
                <<"File System Location", "Git Info">>
                \o (IF recent # 0 THEN <<"Recent Changes">> ELSE <<>>)
                \o <<"Structure", "File Contents", "Summary">>
           /\ s[4 + k].body = PathsOf(repoInfo.files)
           /\ repoInfo.gitInfo = None =>
                /\ s[2].labels = <<"Not a git repository">>
                /\ \A i \in 1..Len(s) : Range(s[i].labels) \cap SnapshotLines = {}

\* a document with the note, without a snapshot, of two files
C22_Witness ==
    /\ output # None
    /\ recent # 0
    /\ repoInfo.gitInfo = None
    /\ Len(repoInfo.files) = 2
    /\ Len(output[1].sections) = 6

(***************************************************************************)
(* Properties of the summarizer (SpecPure)                                 *)
(***************************************************************************)
ScriptSummary ==
    Returned("summarizeCode") /\ isScript(answer[1].language)

DeclarationKeywords ==
    {"function", "class", "interface", "type", "const", "let", "var"}

\* the names a source declares behind "export", "export default" or either
\* followed by "async", in the order of the text
RECURSIVE ExportedNames(_, _)
ExportedNames(items, i) ==
    IF i > Len(items) THEN <<>>
    ELSE LET d == IF tokAt(items, i + 1) = "default" THEN i + 2 ELSE i + 1
             k == IF tokAt(items, d) = "async" THEN d + 1 ELSE d
         IN (IF tokAt(items, i) = "export" /\ tokAt(items, k) \in DeclarationKeywords
                /\ isWord(items, k + 1)
             THEN <<items[k + 1].tok>> ELSE <<>>)
            \o ExportedNames(items, i + 1)

\* C23: the exports of a script source are the names of all its exported
\* functions, classes, interfaces, types and const/let/var declarations, in
\* the order of the text, those declared "export async function" included
C23_ExportsListEveryExportedName ==
    ScriptSummary => answer[1].exports = ExportedNames(call[1].source, 1)

\* a binding the import pattern knows: one name, "* as name" or one brace list
PlainBinding(binding) ==
    \/ Len(binding) = 1 /\ binding[1] \notin NonWord
    \/ Len(binding) = 3 /\ binding[1] = "*" /\ binding[2] = "as"
         /\ binding[3] \notin NonWord
    \/ /\ Len(binding) >= 3
       /\ binding[1] = "{"
       /\ \A k \in 1..Len(binding) : binding[k] = "}" <=> k = Len(binding)

\* the require call at i initializes a const, let or var declaration
Assigned(items, i) ==
    /\ tokAt(items, i - 1) = "="
    /\ \E b \in 1..(i - 2) :
          tokAt(items, b) \in {"const", "let", "var"} /\ bindingEnd(items, b + 1) = i - 1

\* every import ... from '<spec>' and every require('<spec>') of a source, in
\* the order of the text
RECURSIVE ModuleReferences(_, _)
ModuleReferences(items, i) ==
    IF i > Len(items) THEN <<>>
    ELSE LET from == RunEnd(items, i + 1, {"from", "import"})
         IN (IF tokAt(items, i) = "import" /\ tokAt(items, from) = "from"
                /\ tokAt(items, from + 1) = "str"
             THEN <<[form |-> "import", spec |-> items[from + 1].arg[1],
                     plain |-> PlainBinding([k \in 1..(from - i - 1) |->
                                               items[i + k].tok])]>>
             ELSE IF tokAt(items, i) = "require" /\ tokAt(items, i + 1) = "("
                     /\ tokAt(items, i + 2) = "str" /\ tokAt(items, i + 3) = ")"
             THEN <<[form |-> "require", spec |-> items[i + 2].arg[1],
                     plain |-> Assigned(items, i)]>>
             ELSE <<>>)
            \o ModuleReferences(items, i + 1)

SpecsOf(references) == [k \in 1..Len(references) |-> references[k].spec]

DocTextOf ==
    (DocLines :> <<"L", "o", " ", "a">>) @@ (ShortDocLines :> <<"x">>)

\* the declarations "function NAME (" of a source in the order of the text:
\* the name, whether "async" stands before "function", whether "export"
\* stands before that, and the doc comment right before the declaration
RECURSIVE FunctionDeclarations(_, _)
FunctionDeclarations(items, f) ==
    IF f > Len(items) THEN <<>>
    ELSE LET async == tokAt(items, f - 1) = "async"
             e == IF async THEN f - 2 ELSE f - 1
             exported == tokAt(items, e) = "export"
             start == IF exported THEN e ELSE e + 1
         IN (IF tokAt(items, f) = "function" /\ isWord(items, f + 1)
                /\ tokAt(items, f + 2) = "("
             THEN <<[name |-> items[f + 1].tok, isAsync |-> async,
                     isExported |-> exported,
                     doc |-> IF tokAt(items, start - 1) = "/**"
                             THEN Some(DocTextOf[items[start - 1].arg])
                             ELSE None]>>
             ELSE <<>>)
            \o FunctionDeclarations(items, f + 1)

\* C25: every function declaration of a script source is extracted with its
\* name, with isExported true exactly when "export" stands right before it,
\* with isAsync true exactly when it is declared "async", and, when a doc
\* comment stands right before it, with the text of the comment as its
\* description: markers and leading asterisks stripped, lines joined by one
\* space
C25_FunctionsCarryFlagsAndDescription ==
    ScriptSummary =>
        LET decls == FunctionDeclarations(call[1].source, 1)
            found == SelectSeq(answer[1].functions,
                               LAMBDA g : "function" \in Range(g.signature))
        IN /\ Len(found) = Len(decls)
           /\ \A k \in 1..Len(decls) :
                /\ found[k].type = "function"
                /\ found[k].name = decls[k].name
                /\ found[k].isExported = decls[k].isExported
                /\ found[k].isAsync = decls[k].isAsync
                /\ decls[k].doc # None => found[k].description = decls[k].doc

\* the documented "export async function loadConfig" was summarized
C25_Witness ==
    /\ ScriptSummary
    /\ \E k \in 1..Len(answer[1].functions) :
          /\ answer[1].functions[k].name = "loadConfig"
          /\ answer[1].functions[k].isExported
          /\ answer[1].functions[k].isAsync
          /\ answer[1].functions[k].description = Some(<<"L", "o", " ", "a">>)

\* the definitions "def NAME (" of a source in the order of the text, and
\* whether "async" stands before "def"
RECURSIVE PythonDefinitions(_, _)
PythonDefinitions(items, d) ==
    IF d > Len(items) THEN <<>>
    ELSE (IF tokAt(items, d) = "def" /\ isWord(items, d + 1)
             /\ tokAt(items, d + 2) = "("
          THEN <<[name |-> items[d + 1].tok,
                  isAsync |-> tokAt(items, d - 1) = "async"]>>
          ELSE <<>>)
         \o PythonDefinitions(items, d + 1)

\* C26: every function and class extracted from a Python source has
\* isExported true, and a function has isAsync true exactly when it is
\* defined with "async def"
C26_PythonAsyncDefIsAsync ==
    (Returned("summarizeCode") /\ answer[1].language = "python") =>
        LET defs == PythonDefinitions(call[1].source, 1)
            found == SelectSeq(answer[1].functions,
                               LAMBDA g : g.type = "function")
        IN /\ \A k \in 1..Len(answer[1].functions) :
                answer[1].functions[k].isExported
           /\ Len(found) = Len(defs)
           /\ \A k \in 1..Len(defs) :
                found[k].name = defs[k].name /\ found[k].isAsync = defs[k].isAsync

Count(s, x) == Cardinality({k \in 1..Len(s) : s[k] = x})

\* C27: the line of a declaration in the summary block holds "export" at
\* most once and "async" at most once
C27_KeywordsOncePerLine ==
    Returned("formatSummary") =>
        \A k \in 1..Len(answer[1].blocks) :
            /\ Count(answer[1].blocks[k].line, "export") <= 1
            /\ Count(answer[1].blocks[k].line, "async") <= 1

(***************************************************************************)
(* Properties of the admission loop (Spec), continued                      *)
(***************************************************************************)
\* a quarter of the characters of a text, halves rounded up
TokenEstimate(content) == (ContentLength(content) + 2) \div 4

RECURSIVE SumOfEstimates(_)
SumOfEstimates(files) ==
    IF files = <<>> THEN 0
    ELSE TokenEstimate(Head(files).content) + SumOfEstimates(Tail(files))

\* C28: with a positive token budget B the running total never exceeds B, a
\* candidate that brings the total to exactly B is admitted, and the reported
\* totalTokens is the final running total and the sum of the estimates of
\* the admitted files, hence at most B
C28_TotalWithinBudget ==
    [][ maxTokens > 0 =>
          /\ loc'.currentTokens <= maxTokens
          /\ (/\ CandidateReadable /\ removed' = removed /\ NoFault
              /\ loc.currentTokens + TokenEstimate(readFileContents(fullPath))
                   = maxTokens)
               => /\ loc'.currentTokens = maxTokens
                  /\ Len(loc'.fileInfos) = Len(loc.fileInfos) + 1
                  /\ loc'.fileInfos[Len(loc'.fileInfos)].path = filePath
          /\ pc' = "done"
               => /\ repoInfo'.totalTokens = loc'.currentTokens
                  /\ repoInfo'.totalTokens = SumOfEstimates(repoInfo'.files)
                  /\ repoInfo'.totalTokens <= maxTokens ]_vars

\* a call whose second admitted file used the budget up to the last token
C28_Witness ==
    /\ pc = "done"
    /\ maxTokens > 0
    /\ Len(repoInfo.files) = 2
    /\ repoInfo.totalTokens = maxTokens

(***************************************************************************)
(* Properties of the candidate paths (SpecDocument)                        *)
(***************************************************************************)
\* the candidates that the collection step under way appends
Added == SubSeq(loc'.allFilePaths, Len(loc.allFilePaths) + 1, Len(loc'.allFilePaths))

\* C29: the full path that the admission loop builds from the primary path
\* and a stored candidate names the file that was discovered: the input
\* itself for a file argument, the file found below the directory for a
\* directory input, whether primary or not, relative or absolute
C29_FullPathDenotesDiscoveredFile ==
    [][ (pc = "collect" /\ existsSync(singlePath) /\ NoFault /\ removed' = removed)
          => \A k \in 1..Len(Added) :
                NodeOf(fullPathOf(loc.primaryPath, Added[k])) =
                    IF isFile(singlePath) THEN NodeOf(singlePath)
                    ELSE NodeOf(singlePath) \o <<SEP>>
                         \o collectFiles(singlePath, include, exclude, recent)[k]
      ]_vars

(***************************************************************************)
(* Properties of readFileContents (SpecRead), continued                    *)
(***************************************************************************)
\* C30: the string returned for a file without binary extension holds at
\* most 16 KiB of text besides the truncation marker, whatever the name of
\* the file: also for package.json and tsconfig.json, whether the summary
\* or, for malformed content, the raw text is returned
C30_ReturnedTextWithinCeiling ==
    (returned # None /\ ~returned[1].threw /\ ~HasBinaryExtension(readPath))
        => ContentLength(returned[1].parts.kept) <= maxSize

====
